---------------------------- MODULE Spec2Model ----------------------------
(***************************************************************************)
(* A model of claude-md: the save / restore / clear operations on a        *)
(* repository tree and a per-repository storage directory.                 *)
(*                                                                         *)
(* Strings are sequences of one-character strings, so that the path        *)
(* functions of the program (Clean, Join, Abs, HasPrefix, the tilde        *)
(* encoding of storage names) are computed as the code computes them.      *)
(* The filesystem is the pair of the CLAUDE.md entries of the repository   *)
(* and the entries of the repo storage directory.  Every system call of    *)
(* an operation is one step of the process that runs it.                   *)
(***************************************************************************)
EXTENDS Integers, Sequences, FiniteSets, TLC

VARIABLES
    repo,        \* [RepoPaths -> Node]: the entry at each candidate path of the repository
    repoDirs,    \* the sub-directories of the repository that exist
    storageDir,  \* the repo storage directory: [exists, mode]
    store,       \* [StoreNames -> Node]: the entries of the repo storage directory
    proc,        \* [Procs -> process record]: one slot per running invocation
    hist,        \* the invocations completed so far, oldest first, where observed
    fs0,         \* the filesystem as it was initially
    conv,        \* a call of a path function by itself: its argument and what it returned
    pre          \* the preamble of a command followed step by step: what it found so far

vars == <<repo, repoDirs, storageDir, store, proc, hist, fs0, conv, pre>>

fsvars == <<repo, repoDirs, storageDir, store>>

-----------------------------------------------------------------------------
(* Strings                                                                 *)

\* strings.HasPrefix
HasPrefix(s, prefix) ==
    /\ Len(prefix) <= Len(s)
    /\ SubSeq(s, 1, Len(prefix)) = prefix

\* strings.HasSuffix
HasSuffix(s, suffix) ==
    /\ Len(suffix) <= Len(s)
    /\ SubSeq(s, Len(s) - Len(suffix) + 1, Len(s)) = suffix

\* strings.Contains
Contains(s, sub) ==
    \E i \in 1..(Len(s) - Len(sub) + 1) : SubSeq(s, i, i + Len(sub) - 1) = sub

\* strings.Split with a one-character separator: the parts between separators
RECURSIVE SplitFrom(_, _, _, _)
SplitFrom(s, sep, i, cur) ==
    IF i > Len(s) THEN <<cur>>
    ELSE IF s[i] = sep THEN <<cur>> \o SplitFrom(s, sep, i + 1, <<>>)
    ELSE SplitFrom(s, sep, i + 1, Append(cur, s[i]))

Split(s, sep) == SplitFrom(s, sep, 1, <<>>)

\* strings.Join with a one-character separator
RECURSIVE JoinSep(_, _)
JoinSep(parts, sep) ==
    IF Len(parts) = 0 THEN <<>>
    ELSE IF Len(parts) = 1 THEN parts[1]
    ELSE parts[1] \o <<sep>> \o JoinSep(Tail(parts), sep)

Sep == "/"

Tilde == "~"

DotDot == <<".", ".">>

Dot == <<".">>

-----------------------------------------------------------------------------
(* path/filepath                                                           *)

IsAbs(path) == Len(path) > 0 /\ path[1] = Sep

\* The element stack of filepath.Clean: "" and "." are dropped, ".." removes the
\* element before it, is dropped at the root and is kept at the start of a
\* relative path.
RECURSIVE CleanStack(_, _, _, _)
CleanStack(comps, i, rooted, stack) ==
    IF i > Len(comps) THEN stack
    ELSE LET c == comps[i] IN
         IF c = <<>> \/ c = Dot THEN CleanStack(comps, i + 1, rooted, stack)
         ELSE IF c = DotDot THEN
            IF Len(stack) > 0 /\ stack[Len(stack)] # DotDot
                THEN CleanStack(comps, i + 1, rooted, SubSeq(stack, 1, Len(stack) - 1))
            ELSE IF rooted THEN CleanStack(comps, i + 1, rooted, stack)
            ELSE CleanStack(comps, i + 1, rooted, Append(stack, c))
         ELSE CleanStack(comps, i + 1, rooted, Append(stack, c))

\* filepath.Clean
Clean(path) ==
    LET stack == CleanStack(Split(path, Sep), 1, IsAbs(path), <<>>) IN
    IF IsAbs(path) THEN <<Sep>> \o JoinSep(stack, Sep)
    ELSE IF Len(stack) = 0 THEN Dot
    ELSE JoinSep(stack, Sep)

\* filepath.Join: the non-empty elements joined by the separator, then cleaned
Join(elems) ==
    LET nonEmpty == SelectSeq(elems, LAMBDA e : Len(e) > 0) IN
    IF Len(nonEmpty) = 0 THEN <<>> ELSE Clean(JoinSep(nonEmpty, Sep))

\* filepath.Base
Base(path) ==
    LET parts == SelectSeq(Split(path, Sep), LAMBDA e : Len(e) > 0) IN
    IF Len(path) = 0 THEN Dot
    ELSE IF Len(parts) = 0 THEN <<Sep>>
    ELSE parts[Len(parts)]

\* index of the last separator of path, 0 if there is none
LastSep(path) ==
    LET idx == {i \in 1..Len(path) : path[i] = Sep} IN
    IF idx = {} THEN 0 ELSE CHOOSE i \in idx : \A j \in idx : j <= i

\* filepath.Dir
Dir(path) == Clean(SubSeq(path, 1, LastSep(path)))

\* length of the common prefix of two element sequences
RECURSIVE CommonLen(_, _, _)
CommonLen(a, b, k) ==
    IF k < Len(a) /\ k < Len(b) /\ a[k + 1] = b[k + 1]
        THEN CommonLen(a, b, k + 1) ELSE k

\* filepath.Rel of two absolute paths: ".." for every element of base below
\* the common prefix, then the rest of targ
Rel(base, targ) ==
    LET b == SelectSeq(Split(Clean(base), Sep), LAMBDA e : Len(e) > 0)
        t == SelectSeq(Split(Clean(targ), Sep), LAMBDA e : Len(e) > 0)
        k == CommonLen(b, t, 0)
        ups == [i \in 1..(Len(b) - k) |-> DotDot]
        rest == ups \o SubSeq(t, k + 1, Len(t))
    IN  IF Len(rest) = 0 THEN Dot ELSE JoinSep(rest, Sep)

-----------------------------------------------------------------------------
(* The names and the environment of one repository                         *)

ClaudeMd == <<"C", "L", "A", "U", "D", "E", ".", "m", "d">>

\* the lower-case letter of each upper-case letter the model's names use
LowerChar(c) ==
    CASE c = "C" -> "c" [] c = "L" -> "l" [] c = "A" -> "a" [] c = "U" -> "u"
      [] c = "D" -> "d" [] c = "E" -> "e" [] c = "M" -> "m" [] OTHER -> c

\* strings.ToLower
ToLower(s) == [i \in 1..Len(s) |-> LowerChar(s[i])]

\* strings.EqualFold
EqualFold(s, t) == ToLower(s) = ToLower(t)

\* os.UserHomeDir: the home directory of the user, an absolute path
Home == <<"/", "h">>

\* the working directory of an invocation made inside the repository, which
\* is the repository root that FindRepository returns
RepoRoot == <<"/", "w">>

\* the user part of user.email and the last segment of remote.origin.url
User == <<"u">>

RepoName == <<"r", ".", "g", "i", "t">>

\* a sub-directory of the repository; its name sorts before CLAUDE.md, so the
\* file below it is walked, and its storage file listed, before the one at
\* the root
SubDir == <<"A", "p", "i">>

\* a sub-directory whose name holds a tilde; it sorts between SubDir and
\* CLAUDE.md
TildeDir == <<"A", "~">>

\* storage.NewPathConverter
NewPathConverter(user, repoName) ==
    [StorageRoot |-> Join(<<Home, <<".", "c", "l", "a", "u", "d", "e">>,
                            <<"c", "l", "a", "u", "d", "e", "-", "m", "d">>, user>>),
     RepoName |-> repoName]

Converter == NewPathConverter(User, RepoName)

\* ValidatePath that accepts every path
ValidatePathAny(path) == TRUE

\* storage.ValidatePath: the error is a path that contains a tilde
ValidatePath(path) == ~Contains(path, <<Tilde>>)

\* ConvertToStorageName that keeps the base name only
ConvertToStorageNameBase(repoRelativePath) ==
    IF ~ValidatePath(repoRelativePath) THEN [err |-> TRUE, val |-> <<>>]
    ELSE [err |-> FALSE, val |-> Base(repoRelativePath)]

\* PathConverter.ConvertToStorageName
ConvertToStorageName(repoRelativePath) ==
    LET cleaned == Clean(repoRelativePath) IN
    IF ~ValidatePath(repoRelativePath) THEN [err |-> TRUE, val |-> <<>>]
    ELSE IF cleaned = ClaudeMd \/ cleaned = Base(repoRelativePath)
        THEN [err |-> FALSE, val |-> Base(repoRelativePath)]
    ELSE [err |-> FALSE, val |-> JoinSep(Split(cleaned, Sep), Tilde)]

\* ConvertToRepoPath that rejects a part only when it is ".." itself
ConvertToRepoPathParts(storageFilename) ==
    LET parts == Split(storageFilename, Tilde) IN
    IF \E i \in 1..Len(parts) : parts[i] = DotDot THEN <<>>
    ELSE IF ~Contains(storageFilename, <<Tilde>>) THEN storageFilename
    ELSE Join(parts)

\* ConvertToRepoPath that validates nothing
ConvertToRepoPathUnchecked(storageFilename) ==
    IF ~Contains(storageFilename, <<Tilde>>) THEN storageFilename
    ELSE Join(Split(storageFilename, Tilde))

\* ConvertToRepoPath with the tildes left in place
ConvertToRepoPathKeepTilde(storageFilename) ==
    IF Contains(storageFilename, DotDot) THEN <<>> ELSE storageFilename

\* PathConverter.ConvertToRepoPath: the empty string is the rejection
ConvertToRepoPath(storageFilename) ==
    IF ~Contains(storageFilename, <<Tilde>>)
        THEN IF Contains(storageFilename, DotDot) THEN <<>> ELSE storageFilename
    ELSE LET parts == Split(storageFilename, Tilde) IN
         IF \E i \in 1..Len(parts) : parts[i] = DotDot \/ Contains(parts[i], DotDot)
             THEN <<>>
         ELSE Join(parts)

\* PathConverter.GetRepoStorageDir
GetRepoStorageDir(pc) == Join(<<pc.StorageRoot, pc.RepoName>>)

\* GetStoragePath with the repository directory left out of the path
GetStoragePathNoRepo(pc, repoRelativePath) ==
    LET storageName == ConvertToStorageName(repoRelativePath) IN
    IF storageName.err THEN [err |-> TRUE, val |-> <<>>]
    ELSE [err |-> FALSE, val |-> Join(<<pc.StorageRoot, storageName.val>>)]

\* PathConverter.GetStoragePath
GetStoragePath(pc, repoRelativePath) ==
    LET storageName == ConvertToStorageName(repoRelativePath) IN
    IF storageName.err THEN [err |-> TRUE, val |-> <<>>]
    ELSE [err |-> FALSE, val |-> Join(<<GetRepoStorageDir(pc), storageName.val>>)]

\* filepath.Abs: an absolute path is cleaned; a relative one is joined to the
\* working directory, which fails when the working directory is unknown
Abs(path, getwdOK) ==
    IF IsAbs(path) THEN [err |-> FALSE, val |-> Clean(path)]
    ELSE IF getwdOK THEN [err |-> FALSE, val |-> Join(<<RepoRoot, path>>)]
    ELSE [err |-> TRUE, val |-> <<>>]

-----------------------------------------------------------------------------
(* The filesystem                                                          *)

\* the candidate paths of the repository, relative to its root, in the
\* lexical order in which filepath.Walk visits them
RepoPathSeq == <<Join(<<SubDir, ClaudeMd>>), Join(<<TildeDir, ClaudeMd>>), ClaudeMd>>

\* the candidate path below the directory whose name holds a tilde
TildePath == RepoPathSeq[2]

RepoPaths == {RepoPathSeq[i] : i \in 1..Len(RepoPathSeq)}

\* the file names of the repo storage directory, in the sorted order in
\* which os.ReadDir returns them
StoreNameSeq == <<SubDir \o <<Tilde>> \o ClaudeMd, ClaudeMd>>

StoreNames == {StoreNameSeq[i] : i \in 1..Len(StoreNameSeq)}

\* the contents a file may hold: sequences of bytes
Contents == {<<1, 2>>, <<3>>}

\* the proper prefixes of a content: what a failed write may leave behind
Partial(content) == {SubSeq(content, 1, k) : k \in 0..(Len(content) - 1)}

None == [k |-> "none"]

File(c) == [k |-> "file", c |-> c]

Link(t) == [k |-> "link", t |-> t]

\* the path of a storage file, as FindStoredFiles builds it
StoredPath(name) == GetRepoStorageDir(Converter) \o <<Sep>> \o name

StoredPathOf == [n \in StoreNames |-> StoredPath(n)]

\* the storage path save computes for each repository path
StoragePathOf == [r \in RepoPaths |-> GetStoragePath(Converter, r)]

StorageNameOf == [r \in RepoPaths |-> ConvertToStorageName(r)]

\* a directory next to the repo storage directory whose name begins with the
\* name of the repo storage directory
SiblingDir == GetRepoStorageDir(Converter) \o <<"x">>

\* a file outside the storage tree
ExternalFile == <<"/", "e", "/", "f">>

\* the targets a symbolic link of the repository may have initially
LinkTargets(r) ==
    {StoragePathOf[r].val, ExternalFile, Join(<<SiblingDir, ClaudeMd>>)}

\* the storage names whose storage path is the given path
NamesAt(path) == {n \in StoreNames : StoredPathOf[n] = Clean(path)}

\* the absolute path of a repository-relative path
AbsolutePath(r) == Join(<<RepoRoot, r>>)

\* whether the directory that holds a repository path exists
ParentExists(r, dirs) ==
    LET parentDir == Dir(AbsolutePath(r)) IN
    parentDir = RepoRoot \/ \E d \in dirs : parentDir = Join(<<RepoRoot, d>>)

ParentExistsOf == [r \in RepoPaths |-> [dirs \in SUBSET {SubDir, TildeDir} |-> ParentExists(r, dirs)]]

\* os.ReadFile of a repository path, following a symbolic link: the content,
\* or an error when nothing is there or the link dangles
ReadFile(r, rp, st) ==
    IF rp[r].k = "file" THEN [err |-> FALSE, val |-> rp[r].c]
    ELSE IF rp[r].k = "link" /\ \E n \in NamesAt(rp[r].t) : st[n].k = "file"
        THEN [err |-> FALSE,
              val |-> st[CHOOSE n \in NamesAt(rp[r].t) : st[n].k = "file"].c]
    ELSE [err |-> TRUE, val |-> <<>>]

\* os.WriteFile of a repository path (create, truncate, write), following a
\* symbolic link: the filesystem <<repo, store>> with the data written
WriteFile(r, data, rp, st) ==
    IF rp[r].k = "link"
        THEN IF NamesAt(rp[r].t) = {} THEN <<rp, st>>
             ELSE <<rp, [n \in StoreNames |->
                            IF n \in NamesAt(rp[r].t) THEN File(data) ELSE st[n]]>>
    ELSE <<[rp EXCEPT ![r] = File(data)], st>>

-----------------------------------------------------------------------------
(* Processes: one invocation of a command each                             *)

Procs == {1, 2}

\* the number of invocations a behaviour may start
MaxRuns == 3

\* owner-only permission of the storage directory, 0700
DirMode == 448

\* the permission of a directory made by something else, 0755
OtherMode == 493

Commands == {"init", "save", "restore", "clear"}

IdleProc ==
    [cmd |-> "none", pc |-> "idle", files |-> <<>>, walk |-> 0, i |-> 0,
     content |-> <<>>, reason |-> "", results |-> <<>>, exit |-> -1,
     out |-> <<>>, inRepo |-> FALSE, faulted |-> FALSE, repo0 |-> <<>>, store0 |-> <<>>,
     dir0 |-> <<>>, made |-> {}, kept |-> {}, ensured |-> FALSE]

\* the process record after a system call that failed although the
\* filesystem of the model allowed it: a fault of the environment
Fault(P, injected) == [P EXCEPT !.faulted = @ \/ injected]

\* a result record of SaveFiles, RestoreFiles or ClearSymlinks
Result(rel, success, skipped, reason, warning, error) ==
    [RepoRelativePath |-> rel, Success |-> success, Skipped |-> skipped,
     SkipReason |-> reason, Warning |-> warning, Error |-> error]

\* a success that is also marked as skipped
SucceededSkipped(rel) == Result(rel, TRUE, TRUE, "", "", FALSE)

\* the result of a file that was processed to the end
Succeeded(rel) == Result(rel, TRUE, FALSE, "", "", FALSE)

\* a skip that carries a warning and an error
SkipErr(rel, reason) == Result(rel, FALSE, TRUE, reason, "Skipping", TRUE)

\* Recorded with the loop left at the first result that is not a success
RecordedStop(P, result, first) ==
    [P EXCEPT !.results = Append(P.results, result),
              !.i = P.i + 1,
              !.pc = IF P.i + 1 > Len(P.files) \/ ~result.Success THEN "summary" ELSE first,
              !.content = <<>>,
              !.reason = ""]

\* the process record after a result is appended: the loop goes to the next
\* file, or returns to the command when there is none
Recorded(P, result, first) ==
    [P EXCEPT !.results = Append(P.results, result),
              !.i = P.i + 1,
              !.pc = IF P.i + 1 > Len(P.files) THEN "summary" ELSE first,
              !.content = <<>>,
              !.reason = ""]

\* the file the loop of a process is at
Cur(p) == proc[p].files[proc[p].i]

\* an invocation that ends before its summary: the exit status and what it printed
Ended(P, status, lines) == [P EXCEPT !.pc = "done", !.exit = status, !.out = lines]

\* the entry of hist for a finished invocation: the command, whether it
\* returned 0 with every file a success, and the number of its results
Finished(P) ==
    [cmd |-> P.cmd,
     clean |-> P.exit = 0 /\ \A i \in 1..Len(P.results) : P.results[i].Success,
     n |-> Len(P.results)]

\* hist is kept only in the behaviours that start from an observed state
Unobserved == <<[cmd |-> "unobserved", clean |-> FALSE, n |-> 0]>>

Observed == hist # Unobserved

Observe(entry) == IF Observed THEN Append(hist, entry) ELSE hist

\* no preamble is being followed
NoPre ==
    [pc |-> "none", cwd |-> <<>>, dir |-> <<>>, git |-> <<>>, email |-> <<>>, url |-> <<>>,
     root |-> <<>>, user |-> <<>>, repoName |-> <<>>, converter |-> <<>>, err |-> ""]

\* no path function is being called by itself
NoConv == [op |-> "none", arg |-> <<>>, name |-> <<>>, out |-> [err |-> FALSE, val |-> <<>>]]

-----------------------------------------------------------------------------
(* The initial states                                                      *)

InitNodes(r) ==
    IF StoragePathOf[r].err THEN {None} \cup {File(c) : c \in Contents}
    ELSE {None} \cup {File(c) : c \in Contents} \cup {Link(t) : t \in LinkTargets(r)}

TypeFS(rp, dirs, sd, st) ==
    /\ \A r \in RepoPaths : rp[r] # None => ParentExistsOf[r][dirs]
    /\ (\E n \in StoreNames : st[n] # None) => sd.exists

Init ==
    /\ repo \in [RepoPaths -> UNION {InitNodes(r) : r \in RepoPaths}]
    /\ \A r \in RepoPaths : repo[r] \in InitNodes(r)
    /\ repo[TildePath] = None
    /\ repoDirs \in SUBSET {SubDir}
    /\ storageDir \in {[exists |-> FALSE, mode |-> 0], [exists |-> TRUE, mode |-> DirMode],
                       [exists |-> TRUE, mode |-> OtherMode]}
    /\ store \in [StoreNames -> {None} \cup {File(c) : c \in Contents}]
    /\ TypeFS(repo, repoDirs, storageDir, store)
    /\ proc = [p \in Procs |-> IdleProc]
    /\ hist = Unobserved
    /\ fs0 = [repo |-> repo, store |-> store, dirs |-> repoDirs]
    /\ conv = NoConv
    /\ pre = NoPre

-----------------------------------------------------------------------------
(* The command preamble and discovery                                      *)

\* Start with the error of FindRepository ignored: the command goes on
StartAnywhere(p, cmd, inRepository) ==
    /\ proc[p].pc \in {"idle", "done"}
    /\ Observed => Len(hist) < MaxRuns
    /\ proc' = [proc EXCEPT ![p] =
            [IdleProc EXCEPT !.cmd = cmd, !.repo0 = repo, !.store0 = store, !.dir0 = storageDir,
                             !.inRepo = inRepository, !.walk = 1,
                             !.pc = CASE cmd = "init" -> "init"
                                      [] cmd = "restore" -> "readdir"
                                      [] OTHER -> "walk"]]
    /\ hist' = hist
    /\ UNCHANGED <<fsvars, fs0, conv, pre>>

\* runInit, runSave, runRestore, runClear up to the first filesystem access:
\* FindRepository fails when no .git entry is above the working directory
Start(p, cmd, inRepository) ==
    /\ proc[p].pc \in {"idle", "done"}
    /\ Observed => Len(hist) < MaxRuns
    /\ proc' = [proc EXCEPT ![p] =
            IF ~inRepository
                THEN Ended([IdleProc EXCEPT !.cmd = cmd, !.repo0 = repo, !.store0 = store, !.dir0 = storageDir],
                           1, <<[kind |-> "Error"]>>)
            ELSE [IdleProc EXCEPT !.cmd = cmd, !.repo0 = repo, !.store0 = store, !.dir0 = storageDir,
                                  !.inRepo = TRUE, !.walk = 1,
                                  !.pc = CASE cmd = "init" -> "init"
                                           [] cmd = "restore" -> "readdir"
                                           [] OTHER -> "walk"]]
    /\ hist' = IF inRepository THEN hist
               ELSE Observe(Finished(proc'[p]))
    /\ UNCHANGED <<fsvars, fs0, conv, pre>>

\* EnsureStorageDir that creates the directory with the mode 0755
EnsureStorageDirOpen(sd) == IF sd.exists THEN sd ELSE [exists |-> TRUE, mode |-> OtherMode]

\* PathConverter.EnsureStorageDir: os.MkdirAll creates the directory with
\* mode 0700 when it is missing and leaves an existing directory alone
EnsureStorageDir(sd) == IF sd.exists THEN sd ELSE [exists |-> TRUE, mode |-> DirMode]

\* runInit after the preamble: the directory is reported when it exists and
\* created otherwise; a failed creation ends the command with status 1
InitStorage(p) ==
    /\ proc[p].pc = "init"
    /\ \E mkdirOK \in BOOLEAN :
        /\ storageDir.exists => mkdirOK
        /\ storageDir' = IF mkdirOK THEN EnsureStorageDir(storageDir) ELSE storageDir
        /\ proc' = [proc EXCEPT ![p] =
                IF ~mkdirOK THEN Ended(Fault(@, TRUE), 1, <<[kind |-> "Error"]>>)
                ELSE IF storageDir.exists
                    THEN Ended(@, 0, <<[kind |-> "Storage directory already exists"],
                                       [kind |-> "User"]>>)
                ELSE Ended([@ EXCEPT !.ensured = TRUE], 0,
                           <<[kind |-> "Created storage directory"], [kind |-> "User"]>>)]
        /\ hist' = Observe(Finished(proc'[p]))
    /\ UNCHANGED <<repo, repoDirs, store, fs0, conv, pre>>

\* IsSymlink through os.Stat, which follows the link and never sees one
IsSymlinkStat(node) == FALSE

\* files.IsSymlink
IsSymlink(node) == node.k = "link"

\* the callback of filepath.Walk in FindClaudeFiles on one candidate path: an
\* entry whose base name is CLAUDE.md in any casing is recorded
Visit(found, r, node) ==
    IF node # None /\ EqualFold(Base(AbsolutePath(r)), ClaudeMd)
        THEN Append(found, [RepoRelativePath |-> r, IsSymlink |-> IsSymlink(node)])
    ELSE found

\* FindClaudeFiles, one visited path per step; after the last path runSave
\* prints that nothing was found or enters SaveFiles, and ClearSymlinks
\* enters its loop
Walk(p) ==
    /\ proc[p].pc = "walk"
    /\ LET P == proc[p]
           found == Visit(P.files, RepoPathSeq[P.walk], repo[RepoPathSeq[P.walk]])
           last == P.walk = Len(RepoPathSeq)
       IN  /\ proc' = [proc EXCEPT ![p] =
                  IF ~last THEN [P EXCEPT !.files = found, !.walk = P.walk + 1]
                  ELSE IF Len(found) = 0 /\ P.cmd = "save"
                      THEN Ended([P EXCEPT !.files = found], 0,
                                 <<[kind |-> "No CLAUDE.md files found in repository"]>>)
                  ELSE IF Len(found) = 0
                      THEN [P EXCEPT !.files = found, !.pc = "summary"]
                  ELSE [P EXCEPT !.files = found, !.i = 1,
                                 !.pc = IF P.cmd = "save" THEN "s_begin" ELSE "c_inspect"]]
           /\ hist' = IF proc'[p].pc = "done" THEN Observe(Finished(proc'[p]))
                      ELSE hist
    /\ UNCHANGED <<fsvars, fs0, conv, pre>>

\* a walk error that clear reports as save does
WalkErrorReported(p) ==
    /\ proc[p].pc = "walk"
    /\ proc' = [proc EXCEPT ![p] =
            Ended(Fault([@ EXCEPT !.files = <<>>], TRUE), 1, <<[kind |-> "Error"]>>)]
    /\ hist' = Observe(Finished(proc'[p]))
    /\ UNCHANGED <<fsvars, fs0, conv, pre>>

\* a walk error: runSave prints the error and returns it, ClearSymlinks
\* returns no results
WalkError(p) ==
    /\ proc[p].pc = "walk"
    /\ proc' = [proc EXCEPT ![p] =
            IF @.cmd = "save"
                THEN Ended(Fault([@ EXCEPT !.files = <<>>], TRUE), 1, <<[kind |-> "Error"]>>)
            ELSE Fault([@ EXCEPT !.files = <<>>, !.pc = "summary"], TRUE)]
    /\ hist' = IF proc'[p].pc = "done" THEN Observe(Finished(proc'[p])) ELSE hist
    /\ UNCHANGED <<fsvars, fs0, conv, pre>>

-----------------------------------------------------------------------------
(* SaveFiles                                                               *)

\* the storage file name of the file a save is at
CurName(p) == StorageNameOf[Cur(p).RepoRelativePath].val

\* the loop body up to EnsureStorageDir: the path is validated, a symbolic
\* link is skipped, the storage path is computed, the directory is made
SaveBegin(p) ==
    /\ proc[p].pc = "s_begin"
    /\ \E mkdirOK \in BOOLEAN :
        LET P == proc[p]
            rel == Cur(p).RepoRelativePath
            go == /\ ValidatePath(rel)
                  /\ ~Cur(p).IsSymlink
                  /\ ~GetStoragePath(Converter, rel).err
                  /\ mkdirOK
        IN  /\ storageDir.exists => mkdirOK
            /\ storageDir' = IF go THEN EnsureStorageDir(storageDir) ELSE storageDir
            /\ proc' = [proc EXCEPT ![p] =
                    IF ~ValidatePath(rel)
                        THEN Recorded(P, SkipErr(rel, "invalid path"), "s_begin")
                    ELSE IF Cur(p).IsSymlink
                        THEN Recorded(P, Result(rel, FALSE, TRUE, "already symlink", "", FALSE),
                                      "s_begin")
                    ELSE IF GetStoragePath(Converter, rel).err
                        THEN Recorded(P, SkipErr(rel, "path conversion error"), "s_begin")
                    ELSE IF ~mkdirOK
                        THEN Recorded(Fault(P, TRUE),
                                      SkipErr(rel, "storage directory creation failed"),
                                      "s_begin")
                    ELSE [P EXCEPT !.ensured = TRUE, !.pc = "s_read"]]
    /\ UNCHANGED <<repo, repoDirs, store, hist, fs0, conv, pre>>

\* os.ReadFile of the original file
SaveRead(p) ==
    /\ proc[p].pc = "s_read"
    /\ \E readOK \in BOOLEAN :
        LET P == proc[p]
            rel == Cur(p).RepoRelativePath
            got == ReadFile(rel, repo, store)
        IN  proc' = [proc EXCEPT ![p] =
                IF got.err \/ ~readOK
                    THEN Recorded(Fault(P, ~got.err), SkipErr(rel, "read failed"), "s_begin")
                ELSE [P EXCEPT !.content = got.val, !.pc = "s_create"]]
    /\ UNCHANGED <<fsvars, hist, fs0, conv, pre>>

\* the open without O_EXCL: an existing storage file is truncated, not reported
StorageFileExistsNoExcl(node) == FALSE

\* os.IsExist of the error of os.OpenFile with O_CREATE|O_EXCL
StorageFileExists(node) == node # None

\* os.OpenFile with O_CREATE|O_EXCL: an existing storage file is a skip
\* without an error, any other failure a skip with one
SaveCreate(p) ==
    /\ proc[p].pc = "s_create"
    /\ \E createOK \in BOOLEAN :
        LET P == proc[p]
            rel == Cur(p).RepoRelativePath
            n == CurName(p)
            exists == StorageFileExists(store[n])
            made == ~exists /\ createOK /\ storageDir.exists
        IN  /\ store' = IF made THEN [store EXCEPT ![n] = File(<<>>)] ELSE store
            /\ proc' = [proc EXCEPT ![p] =
                    IF exists
                        THEN Recorded(P, Result(rel, FALSE, TRUE, "storage file exists",
                                                "Skipping", FALSE), "s_begin")
                    ELSE IF ~made
                        THEN Recorded(Fault(P, storageDir.exists),
                                      SkipErr(rel, "storage file creation failed"), "s_begin")
                    ELSE [P EXCEPT !.made = @ \cup {n}, !.pc = "s_write"]]
    /\ UNCHANGED <<repo, repoDirs, storageDir, hist, fs0, conv, pre>>

\* the error of storageFile.Write ignored
WriteCompleteUnchecked(written, content) == TRUE

\* storageFile.Write returns no error: all of the content was written
WriteComplete(written, content) == written = content

\* storageFile.Write: all of the content, or an error after a part of it
SaveWrite(p) ==
    /\ proc[p].pc = "s_write"
    /\ \E written \in {proc[p].content} \cup Partial(proc[p].content) :
        LET P == proc[p]
            n == CurName(p)
        IN  /\ store' = IF store[n] = None THEN store
                        ELSE [store EXCEPT ![n] = File(written)]
            /\ proc' = [proc EXCEPT ![p] =
                    IF WriteComplete(written, P.content) THEN [P EXCEPT !.pc = "s_remove"]
                    ELSE Fault([P EXCEPT !.reason = "write failed", !.pc = "s_undo"], TRUE)]
    /\ UNCHANGED <<repo, repoDirs, storageDir, hist, fs0, conv, pre>>

\* os.Remove of the original file
SaveRemove(p) ==
    /\ proc[p].pc = "s_remove"
    /\ \E removeOK \in BOOLEAN :
        LET P == proc[p]
            rel == Cur(p).RepoRelativePath
            removed == removeOK /\ repo[rel] # None
        IN  /\ repo' = IF removed THEN [repo EXCEPT ![rel] = None] ELSE repo
            /\ proc' = [proc EXCEPT ![p] =
                    IF removed THEN [P EXCEPT !.pc = "s_link"]
                    ELSE Fault([P EXCEPT !.reason = "remove failed", !.pc = "s_undo"],
                               repo[rel] # None)]
    /\ UNCHANGED <<repoDirs, storageDir, store, hist, fs0, conv, pre>>

\* filepath.Abs of the storage path and os.Symlink at the original path
SaveLink(p) ==
    /\ proc[p].pc = "s_link"
    /\ \E symlinkOK \in BOOLEAN, getwdOK \in BOOLEAN :
        LET P == proc[p]
            rel == Cur(p).RepoRelativePath
            absStoragePath == Abs(StoragePathOf[rel].val, getwdOK)
            linked == ~absStoragePath.err /\ symlinkOK /\ repo[rel] = None
        IN  /\ repo' = IF linked THEN [repo EXCEPT ![rel] = Link(absStoragePath.val)]
                       ELSE repo
            /\ proc' = [proc EXCEPT ![p] =
                    IF absStoragePath.err
                        THEN [P EXCEPT !.reason = "absolute path failed", !.pc = "s_restore"]
                    ELSE IF ~linked
                        THEN Fault([P EXCEPT !.reason = "symlink creation failed",
                                             !.pc = "s_restore"], repo[rel] = None)
                    ELSE Recorded(P, Succeeded(rel), "s_begin")]
    /\ UNCHANGED <<repoDirs, storageDir, store, hist, fs0, conv, pre>>

\* os.WriteFile of the content read, at the original path.  A failure
\* leaves the path as it was or holding a part of the content, and is
\* recorded as CRITICAL; after a success the storage file is cleaned up.
SaveRestore(p) ==
    /\ proc[p].pc = "s_restore"
    /\ \E openOK \in BOOLEAN, written \in {proc[p].content} \cup Partial(proc[p].content) :
        LET P == proc[p]
            rel == Cur(p).RepoRelativePath
            after == IF ~openOK THEN <<repo, store>>
                     ELSE WriteFile(rel, written, repo, store)
        IN  /\ repo' = after[1]
            /\ store' = after[2]
            /\ proc' = [proc EXCEPT ![p] =
                    IF openOK /\ written = P.content THEN [P EXCEPT !.pc = "s_undo"]
                    ELSE Recorded(Fault(P, TRUE),
                                  Result(rel, FALSE, TRUE, P.reason, "CRITICAL", TRUE),
                                  "s_begin")]
    /\ UNCHANGED <<repoDirs, storageDir, hist, fs0, conv, pre>>

\* the cleanup never removing the storage file
SaveUndoKeeping(p) ==
    /\ proc[p].pc = "s_undo"
    /\ LET P == proc[p] IN
        proc' = [proc EXCEPT ![p] =
                Recorded(P, SkipErr(Cur(p).RepoRelativePath, P.reason), "s_begin")]
    /\ UNCHANGED <<repo, repoDirs, storageDir, store, hist, fs0, conv, pre>>

\* os.Remove of the storage file this iteration created, after a failed
\* write, a failed removal of the original, or a restored original; its
\* error is discarded, and a file it did not remove is kept
SaveUndo(p) ==
    /\ proc[p].pc = "s_undo"
    /\ \E removeOK \in BOOLEAN :
        LET P == proc[p]
            n == CurName(p)
            removed == removeOK /\ store[n] # None
            left == IF store[n] # None /\ ~removed THEN {n} ELSE {}
        IN  /\ store' = IF removed THEN [store EXCEPT ![n] = None] ELSE store
            /\ proc' = [proc EXCEPT ![p] =
                    Recorded(Fault([P EXCEPT !.kept = @ \cup left], left # {}),
                             SkipErr(Cur(p).RepoRelativePath, P.reason), "s_begin")]
    /\ UNCHANGED <<repo, repoDirs, storageDir, hist, fs0, conv, pre>>

-----------------------------------------------------------------------------
(* FindStoredFiles and RestoreFiles                                        *)

\* the name filter of FindStoredFiles: CLAUDE.md, or a name that ends with
\* ~claude.md, in any casing
IsStoredName(filename) ==
    \/ EqualFold(filename, ClaudeMd)
    \/ HasSuffix(ToLower(filename), <<Tilde>> \o ToLower(ClaudeMd))

StoredFileOf ==
    [n \in StoreNames |->
        [StorageFilename |-> n, RepoRelativePath |-> ConvertToRepoPath(n),
         StoragePath |-> StoredPath(n)]]

\* files.FindStoredFiles on an existing directory
FindStoredFiles(st) ==
    LET kept == SelectSeq(StoreNameSeq,
                    LAMBDA n : /\ st[n] # None
                               /\ IsStoredName(n)
                               /\ ConvertToRepoPath(n) # <<>>)
    IN  [i \in 1..Len(kept) |-> StoredFileOf[kept[i]]]

\* runRestore after the preamble: os.ReadDir of the repo storage directory.
\* A missing directory and an empty list end the command with status 0,
\* any other error with status 1.
RestoreReadDir(p) ==
    /\ proc[p].pc = "readdir"
    /\ \E readOK \in BOOLEAN :
        LET P == proc[p]
            found == FindStoredFiles(store)
        IN  proc' = [proc EXCEPT ![p] =
                IF ~storageDir.exists
                    THEN Ended(P, 0, <<[kind |-> "No stored CLAUDE.md files found for this repository"]>>)
                ELSE IF ~readOK THEN Ended(Fault(P, TRUE), 1, <<[kind |-> "Error"]>>)
                ELSE IF Len(found) = 0
                    THEN Ended(P, 0, <<[kind |-> "No stored CLAUDE.md files found for this repository"]>>)
                ELSE [P EXCEPT !.files = found, !.i = 1, !.pc = "r_inspect"]]
    /\ hist' = IF proc'[p].pc = "done" THEN Observe(Finished(proc'[p])) ELSE hist
    /\ UNCHANGED <<fsvars, fs0, conv, pre>>

\* the entry at a repository-relative path: os.Lstat
Lstat(rel, rp) == IF rel \in RepoPaths THEN rp[rel] ELSE None

\* whether the target path leaves the repository: the path of the target
\* relative to the repository root begins with ".."
Escapes(rel) ==
    LET targetPath == Join(<<RepoRoot, rel>>)
        absRepoRoot == Abs(RepoRoot, TRUE).val
        absTargetPath == Abs(targetPath, TRUE).val
    IN  HasPrefix(Rel(absRepoRoot, absTargetPath), DotDot)

\* RestoreDecision without the os.Stat of the parent directory
RestoreDecisionNoStat(stored, rp, dirs, getwdOK) ==
    LET rel == stored.RepoRelativePath
        node == Lstat(rel, rp)
        absStoragePath == Abs(stored.StoragePath, getwdOK)
        warn(reason) == Result(rel, FALSE, TRUE, reason, "Skipping", FALSE)
    IN  IF Escapes(rel) THEN <<warn("path escapes repository")>>
        ELSE IF node.k = "link" THEN
            IF absStoragePath.err THEN <<SkipErr(rel, "absolute path failed")>>
            ELSE IF node.t = absStoragePath.val
                THEN <<Result(rel, FALSE, TRUE, "already correct", "", FALSE)>>
            ELSE <<warn("wrong target")>>
        ELSE IF node.k = "file" THEN <<warn("file exists")>>
        ELSE <<>>

\* RestoreDecision without the os.Lstat of the target path
RestoreDecisionNoLstat(stored, rp, dirs, getwdOK) ==
    LET rel == stored.RepoRelativePath
        warn(reason) == Result(rel, FALSE, TRUE, reason, "Skipping", FALSE)
    IN  IF Escapes(rel) THEN <<warn("path escapes repository")>>
        ELSE IF ~ParentExists(rel, dirs) THEN <<warn("parent dir missing")>>
        ELSE <<>>

\* the outcome of the checks RestoreFiles makes before it creates a link:
\* a skip result, or no result when the link is to be created
RestoreDecision(stored, rp, dirs, getwdOK) ==
    LET rel == stored.RepoRelativePath
        node == Lstat(rel, rp)
        absStoragePath == Abs(stored.StoragePath, getwdOK)
        warn(reason) == Result(rel, FALSE, TRUE, reason, "Skipping", FALSE)
    IN  IF Escapes(rel) THEN <<warn("path escapes repository")>>
        ELSE IF ~ParentExists(rel, dirs) THEN <<warn("parent dir missing")>>
        ELSE IF node.k = "link" THEN
            IF absStoragePath.err THEN <<SkipErr(rel, "absolute path failed")>>
            ELSE IF node.t = absStoragePath.val
                THEN <<Result(rel, FALSE, TRUE, "already correct", "", FALSE)>>
            ELSE <<warn("wrong target")>>
        ELSE IF node.k = "file" THEN <<warn("file exists")>>
        ELSE <<>>

\* the loop body up to the inspection of the target path (os.Stat of the
\* parent directory, os.Lstat and os.Readlink of the target)
RestoreInspect(p) ==
    /\ proc[p].pc = "r_inspect"
    /\ \E getwdOK \in BOOLEAN :
        LET P == proc[p]
            decision == RestoreDecision(Cur(p), repo, repoDirs, getwdOK)
        IN  proc' = [proc EXCEPT ![p] =
                IF Len(decision) = 0 THEN [P EXCEPT !.pc = "r_link"]
                ELSE Recorded(P, decision[1], "r_inspect")]
    /\ UNCHANGED <<fsvars, hist, fs0, conv, pre>>

\* filepath.Abs of the storage path and os.Symlink at the target path
RestoreLink(p) ==
    /\ proc[p].pc = "r_link"
    /\ \E symlinkOK \in BOOLEAN, getwdOK \in BOOLEAN :
        LET P == proc[p]
            rel == Cur(p).RepoRelativePath
            absStoragePath == Abs(Cur(p).StoragePath, getwdOK)
            linked == /\ ~absStoragePath.err
                      /\ symlinkOK
                      /\ Lstat(rel, repo) = None
                      /\ ParentExists(rel, repoDirs)
        IN  /\ repo' = IF linked THEN [repo EXCEPT ![rel] = Link(absStoragePath.val)]
                       ELSE repo
            /\ proc' = [proc EXCEPT ![p] =
                    IF absStoragePath.err
                        THEN Recorded(P, SkipErr(rel, "absolute path failed"), "r_inspect")
                    ELSE IF ~linked
                        THEN Recorded(Fault(P, Lstat(rel, repo) = None
                                                  /\ ParentExists(rel, repoDirs)),
                                      SkipErr(rel, "symlink creation failed"), "r_inspect")
                    ELSE Recorded(P, Succeeded(rel), "r_inspect")]
    /\ UNCHANGED <<repoDirs, storageDir, store, hist, fs0, conv, pre>>

-----------------------------------------------------------------------------
(* ClearSymlinks                                                           *)

\* the test ClearSymlinks makes of a link target: a textual prefix test
\* against the repo storage directory
PointsToStorage(absTarget, dir) == HasPrefix(absTarget, dir)

\* ClearDecision without the filter on file.IsSymlink
ClearDecisionNoFilter(file, node, getwdOK) ==
    LET rel == file.RepoRelativePath
        resolved == Abs(node.t, getwdOK)
        absTarget == IF resolved.err THEN node.t ELSE resolved.val
    IN  IF node.k # "link"
            THEN [act |-> "skip",
                  result |-> Result(rel, FALSE, TRUE, "failed to read symlink", "", TRUE)]
        ELSE IF ~PointsToStorage(absTarget, GetRepoStorageDir(Converter))
            THEN [act |-> "skip",
                  result |-> Result(rel, FALSE, TRUE, "symlink points outside storage",
                                    "", FALSE)]
        ELSE [act |-> "remove"]

\* the outcome of the loop body of ClearSymlinks before the removal: no
\* result for a file that was not found as a symbolic link, a skip when the
\* link cannot be read or points elsewhere, and otherwise the removal
ClearDecision(file, node, getwdOK) ==
    LET rel == file.RepoRelativePath
        resolved == Abs(node.t, getwdOK)
        absTarget == IF resolved.err THEN node.t ELSE resolved.val
    IN  IF ~file.IsSymlink THEN [act |-> "pass"]
        ELSE IF node.k # "link"
            THEN [act |-> "skip",
                  result |-> Result(rel, FALSE, TRUE, "failed to read symlink", "", TRUE)]
        ELSE IF ~PointsToStorage(absTarget, GetRepoStorageDir(Converter))
            THEN [act |-> "skip",
                  result |-> Result(rel, FALSE, TRUE, "symlink points outside storage",
                                    "", FALSE)]
        ELSE [act |-> "remove"]

\* the loop body up to the prefix test (os.Readlink of a link)
ClearInspect(p) ==
    /\ proc[p].pc = "c_inspect"
    /\ \E getwdOK \in BOOLEAN :
        LET P == proc[p]
            decision == ClearDecision(Cur(p), repo[Cur(p).RepoRelativePath], getwdOK)
        IN  proc' = [proc EXCEPT ![p] =
                IF decision.act = "pass"
                    THEN [P EXCEPT !.i = P.i + 1,
                                   !.pc = IF P.i + 1 > Len(P.files) THEN "summary"
                                          ELSE "c_inspect"]
                ELSE IF decision.act = "skip"
                    THEN Recorded(P, decision.result, "c_inspect")
                ELSE [P EXCEPT !.pc = "c_remove"]]
    /\ UNCHANGED <<fsvars, hist, fs0, conv, pre>>

\* ClearRemove with os.Remove given the target of the link, not the link
ClearRemoveTarget(p) ==
    /\ proc[p].pc = "c_remove"
    /\ \E removeOK \in BOOLEAN :
        LET P == proc[p]
            rel == Cur(p).RepoRelativePath
            names == IF repo[rel].k = "link" THEN NamesAt(repo[rel].t) ELSE {}
            removed == removeOK /\ \E n \in names : store[n] # None
        IN  /\ store' = IF removed THEN [n \in StoreNames |->
                                            IF n \in names THEN None ELSE store[n]]
                        ELSE store
            /\ proc' = [proc EXCEPT ![p] =
                    IF removed THEN Recorded(P, Succeeded(rel), "c_inspect")
                    ELSE Recorded(P, Result(rel, FALSE, FALSE, "", "", TRUE), "c_inspect")]
    /\ UNCHANGED <<repo, repoDirs, storageDir, hist, fs0, conv, pre>>

\* os.Remove of the symbolic link: a failure is a result with an error that
\* is neither a success nor a skip
ClearRemove(p) ==
    /\ proc[p].pc = "c_remove"
    /\ \E removeOK \in BOOLEAN :
        LET P == proc[p]
            rel == Cur(p).RepoRelativePath
            removed == removeOK /\ repo[rel] # None
        IN  /\ repo' = IF removed THEN [repo EXCEPT ![rel] = None] ELSE repo
            /\ proc' = [proc EXCEPT ![p] =
                    IF removed THEN Recorded(P, Succeeded(rel), "c_inspect")
                    ELSE Recorded(Fault(P, repo[rel] # None),
                                  Result(rel, FALSE, FALSE, "", "", TRUE), "c_inspect")]
    /\ UNCHANGED <<repoDirs, storageDir, store, hist, fs0, conv, pre>>

-----------------------------------------------------------------------------
(* The command layer after the operation: the lines and the summary        *)

\* a counter of a result loop: the number of results that took the branch
Count(taken) == Cardinality({i \in 1..Len(taken) : taken[i]})

\* the per-file lines a command prints; a result that prints nothing gives
\* no line
PerFile(lines) == SelectSeq(lines, LAMBDA l : l.kind # "")

NoLine == [kind |-> "", rel |-> <<>>]

\* the loop of runSave over the results
SaveLine(r) ==
    IF r.Success THEN [kind |-> "Saved", rel |-> r.RepoRelativePath]
    ELSE IF r.Skipped
        THEN IF r.Warning # "" THEN [kind |-> "Warning", rel |-> r.RepoRelativePath]
             ELSE NoLine
    ELSE IF r.Error THEN [kind |-> "Error", rel |-> r.RepoRelativePath]
    ELSE NoLine

\* the result loop testing the error before the skip
BranchErrorFirst(r) ==
    IF r.Success THEN "success"
    ELSE IF r.Error THEN "error"
    ELSE IF r.Skipped THEN "skipped"
    ELSE "none"

\* the branch of a result loop each result takes
Branch(r) ==
    IF r.Success THEN "success"
    ELSE IF r.Skipped THEN "skipped"
    ELSE IF r.Error THEN "error"
    ELSE "none"

SaveCounts(results) ==
    [saved |-> Count([i \in 1..Len(results) |-> Branch(results[i]) = "success"]),
     skipped |-> Count([i \in 1..Len(results) |-> Branch(results[i]) = "skipped"]),
     errors |-> Count([i \in 1..Len(results) |-> Branch(results[i]) = "error"])]

\* the loop of runRestore over the results
RestoreLine(r) ==
    IF r.Success THEN [kind |-> "Restored", rel |-> r.RepoRelativePath]
    ELSE IF r.Skipped /\ r.Warning # ""
        THEN [kind |-> "Warning", rel |-> r.RepoRelativePath]
    ELSE NoLine

RestoreCounts(results) ==
    [restored |-> Count([i \in 1..Len(results) |-> Branch(results[i]) = "success"]),
     skipped |-> Count([i \in 1..Len(results) |-> Branch(results[i]) = "skipped"]),
     warnings |-> Count([i \in 1..Len(results) |->
                    Branch(results[i]) = "skipped" /\ results[i].Warning # ""])]

\* the loop of runClear over the results
ClearLine(r) ==
    IF r.Success THEN [kind |-> "Removed", rel |-> r.RepoRelativePath]
    ELSE IF r.Skipped THEN [kind |-> "Skipped", rel |-> r.RepoRelativePath]
    ELSE IF r.Error THEN [kind |-> "Error removing", rel |-> r.RepoRelativePath]
    ELSE NoLine

ClearCounts(results) ==
    [removed |-> Count([i \in 1..Len(results) |-> Branch(results[i]) = "success"]),
     skipped |-> Count([i \in 1..Len(results) |-> Branch(results[i]) = "skipped"]),
     errors |-> Count([i \in 1..Len(results) |-> Branch(results[i]) = "error"])]

\* what a command prints after its operation returned
Output(cmd, results) ==
    CASE cmd = "save" ->
            PerFile([i \in 1..Len(results) |-> SaveLine(results[i])])
                \o <<[kind |-> "Summary", counts |-> SaveCounts(results)]>>
      [] cmd = "restore" ->
            PerFile([i \in 1..Len(results) |-> RestoreLine(results[i])])
                \o <<[kind |-> "Summary", counts |-> RestoreCounts(results)]>>
      [] OTHER ->
            LET c == ClearCounts(results) IN
            IF c.removed = 0 /\ c.errors = 0 /\ c.skipped = 0
                THEN <<[kind |-> "No CLAUDE.md symlinks found in repository"]>>
            ELSE PerFile([i \in 1..Len(results) |-> ClearLine(results[i])])
                    \o <<[kind |-> "Summary", counts |-> c],
                         [kind |-> "Note: Stored files remain in storage"]>>

\* Summary with the error of a result returned to Run, which then returns 1
SummaryFailing(p) ==
    /\ proc[p].pc = "summary"
    /\ proc' = [proc EXCEPT ![p] =
            Ended(@, IF \E k \in 1..Len(@.results) : @.results[k].Error THEN 1 ELSE 0,
                  Output(@.cmd, @.results))]
    /\ hist' = Observe(Finished(proc'[p]))
    /\ UNCHANGED <<fsvars, fs0, conv, pre>>

\* the end of runSave, runRestore and runClear: the results are printed and
\* the command returns no error, so Run returns 0
Summary(p) ==
    /\ proc[p].pc = "summary"
    /\ proc' = [proc EXCEPT ![p] = Ended(@, 0, Output(@.cmd, @.results))]
    /\ hist' = Observe(Finished(proc'[p]))
    /\ UNCHANGED <<fsvars, fs0, conv, pre>>

-----------------------------------------------------------------------------
(* Specifications                                                          *)

\* one step of the invocation in slot p
Step(p) ==
    \/ InitStorage(p)
    \/ Walk(p)
    \/ WalkError(p)
    \/ SaveBegin(p)
    \/ SaveRead(p)
    \/ SaveCreate(p)
    \/ SaveWrite(p)
    \/ SaveRemove(p)
    \/ SaveLink(p)
    \/ SaveRestore(p)
    \/ SaveUndo(p)
    \/ RestoreReadDir(p)
    \/ RestoreInspect(p)
    \/ RestoreLink(p)
    \/ ClearInspect(p)
    \/ ClearRemove(p)
    \/ Summary(p)

\* Invocations one after another, as §5 of the design describes a run: the
\* next command starts when the one before it has returned.
Next ==
    \/ \E cmd \in Commands, inRepository \in BOOLEAN : Start(1, cmd, inRepository)
    \/ Step(1)

Spec == Init /\ [][Next]_vars

\* the content the file at a path holds where the files differ
ContentAt(r) == IF r = ClaudeMd THEN <<1, 2>> ELSE <<3>>

\* A repository of regular files and no symbolic links, with a storage
\* directory that holds nothing, and the invocations observed in hist: at most
\* MaxRuns commands one after another.
CycleInit ==
    /\ repo \in [RepoPaths -> {None} \cup {File(c) : c \in Contents}]
    /\ \A r \in RepoPaths : repo[r] \in {None, File(ContentAt(r))}
    /\ repo[TildePath] = None
    /\ repoDirs \in SUBSET {SubDir}
    /\ storageDir \in {[exists |-> FALSE, mode |-> 0], [exists |-> TRUE, mode |-> DirMode]}
    /\ store = [n \in StoreNames |-> None]
    /\ TypeFS(repo, repoDirs, storageDir, store)
    /\ proc = [p \in Procs |-> IdleProc]
    /\ hist = <<>>
    /\ fs0 = [repo |-> repo, store |-> store, dirs |-> repoDirs]
    /\ conv = NoConv
    /\ pre = NoPre

CycleSpec == CycleInit /\ [][Next]_vars

\* the steps of a save
SaveStep(p) ==
    \/ Walk(p)
    \/ WalkError(p)
    \/ SaveBegin(p)
    \/ SaveRead(p)
    \/ SaveCreate(p)
    \/ SaveWrite(p)
    \/ SaveRemove(p)
    \/ SaveLink(p)
    \/ SaveRestore(p)
    \/ SaveUndo(p)
    \/ Summary(p)

\* Two invocations of save in a repository with one regular file, at the
\* root or below it, each started once, their system calls interleaved in
\* any order: nothing but the filesystem orders them.
RaceInit ==
    /\ repo \in [RepoPaths -> {None} \cup {File(c) : c \in Contents}]
    /\ Cardinality({r \in RepoPaths : repo[r] # None}) = 1
    /\ repo[TildePath] = None
    /\ repoDirs = {SubDir}
    /\ storageDir \in {[exists |-> FALSE, mode |-> 0], [exists |-> TRUE, mode |-> DirMode]}
    /\ store = [n \in StoreNames |-> None]
    /\ proc = [p \in Procs |-> IdleProc]
    /\ hist = Unobserved
    /\ fs0 = [repo |-> repo, store |-> store, dirs |-> repoDirs]
    /\ conv = NoConv
    /\ pre = NoPre

RaceNext ==
    \E p \in Procs :
        \/ proc[p].pc = "idle" /\ Start(p, "save", TRUE)
        \/ SaveStep(p)

RaceSpec == RaceInit /\ [][RaceNext]_vars

RestoreStep(p) ==
    \/ RestoreReadDir(p)
    \/ RestoreInspect(p)
    \/ RestoreLink(p)
    \/ Summary(p)

\* One invocation of save and one of restore in a repository with one
\* regular file, at the root or below it, each started once, their system
\* calls interleaved in any order.
SaveRestoreNext ==
    \/ proc[1].pc = "idle" /\ Start(1, "save", TRUE)
    \/ proc[2].pc = "idle" /\ Start(2, "restore", TRUE)
    \/ SaveStep(1)
    \/ RestoreStep(2)

SaveRestoreSpec == RaceInit /\ [][SaveRestoreNext]_vars

-----------------------------------------------------------------------------
(* The path functions called by themselves                                 *)

\* the characters of the paths the functions are given
Alphabet == {"a", ".", Sep, Tilde}

\* the length of the longest such path
MaxPathLen == 4

\* CLAUDE..md, a name of the conversion tests
DoubleDotName == <<"C", "L", "A", "U", "D", "E", ".", ".", "m", "d">>

\* the arguments: every string over the alphabet up to the length, and the
\* paths and names of the repository
PathInputs ==
    UNION {[1..k -> Alphabet] : k \in 1..MaxPathLen}
        \cup RepoPaths \cup StoreNames \cup {DoubleDotName}

\* the model's record of a call: the function, its argument, the storage
\* name in between for a round trip, and what was returned
Called(op, arg, name, err, val) ==
    [op |-> op, arg |-> arg, name |-> name, out |-> [err |-> err, val |-> val]]

\* storage.ValidatePath on the argument
CallValidatePath ==
    /\ conv.op = "input"
    /\ conv' = Called("ValidatePath", conv.arg, <<>>, ~ValidatePath(conv.arg), <<>>)
    /\ UNCHANGED <<fsvars, proc, hist, fs0, pre>>

\* ConvertToStorageName on the argument
CallConvertToStorageName ==
    /\ conv.op = "input"
    /\ LET got == ConvertToStorageName(conv.arg) IN
        conv' = Called("ConvertToStorageName", conv.arg, <<>>, got.err, got.val)
    /\ UNCHANGED <<fsvars, proc, hist, fs0, pre>>

\* ConvertToRepoPath on the storage name ConvertToStorageName returned
CallConvertBack ==
    /\ conv.op = "ConvertToStorageName"
    /\ ~conv.out.err
    /\ conv' = Called("RoundTrip", conv.arg, conv.out.val, FALSE,
                      ConvertToRepoPath(conv.out.val))
    /\ UNCHANGED <<fsvars, proc, hist, fs0, pre>>

\* ConvertToRepoPath on the argument, a storage file name
CallConvertToRepoPath ==
    /\ conv.op = "input"
    /\ conv' = Called("ConvertToRepoPath", conv.arg, <<>>, FALSE, ConvertToRepoPath(conv.arg))
    /\ UNCHANGED <<fsvars, proc, hist, fs0, pre>>

\* GetStoragePath on the argument
CallGetStoragePath ==
    /\ conv.op = "input"
    /\ LET got == GetStoragePath(Converter, conv.arg) IN
        conv' = Called("GetStoragePath", conv.arg, <<>>, got.err, got.val)
    /\ UNCHANGED <<fsvars, proc, hist, fs0, pre>>

\* Either a path function is called on an argument, in an empty repository,
\* or the commands run in a repository that holds a CLAUDE.md below the
\* directory whose name holds a tilde.
PathInit ==
    /\ repo \in [RepoPaths -> UNION {InitNodes(r) : r \in RepoPaths}]
    /\ \A r \in RepoPaths : repo[r] \in InitNodes(r)
    /\ repoDirs \in SUBSET {SubDir, TildeDir}
    /\ storageDir \in {[exists |-> FALSE, mode |-> 0], [exists |-> TRUE, mode |-> DirMode]}
    /\ store \in [StoreNames -> {None} \cup {File(c) : c \in Contents}]
    /\ TypeFS(repo, repoDirs, storageDir, store)
    /\ proc = [p \in Procs |-> IdleProc]
    /\ hist = Unobserved
    /\ fs0 = [repo |-> repo, store |-> store, dirs |-> repoDirs]
    /\ pre = NoPre
    /\ \/ /\ conv \in {Called("input", arg, <<>>, FALSE, <<>>) : arg \in PathInputs}
          /\ \A r \in RepoPaths : repo[r] = None
          /\ \A n \in StoreNames : store[n] = None
          /\ repoDirs = {}
          /\ ~storageDir.exists
       \/ /\ conv = NoConv
          /\ repo[TildePath] = File(ContentAt(TildePath))
          /\ TildeDir \in repoDirs

PathNext ==
    \/ CallValidatePath
    \/ CallConvertToStorageName
    \/ CallConvertBack
    \/ CallConvertToRepoPath
    \/ CallGetStoragePath
    \/ conv = NoConv /\ Next

PathSpec == PathInit /\ [][PathNext]_vars

-----------------------------------------------------------------------------
(* The storage directory listed and restored from, with any file names     *)

\* the characters of the file names, in the order of their bytes
CharOrder ==
    <<".", "A", "C", "D", "E", "L", "M", "U",
      "a", "c", "d", "e", "i", "l", "m", "p", "u", "x", "~">>

Code(c) == CHOOSE i \in 1..Len(CharOrder) : CharOrder[i] = c

\* the order in which os.ReadDir returns the entries: by file name
RECURSIVE NameLess(_, _)
NameLess(s, t) ==
    IF s = <<>> THEN t # <<>>
    ELSE IF t = <<>> THEN FALSE
    ELSE IF s[1] = t[1] THEN NameLess(Tail(s), Tail(t))
    ELSE Code(s[1]) < Code(t[1])

\* the length of the longest beginning of a file name
MaxPrefixLen == 3

\* the file names: any beginning over a letter, the dot and the tilde, and
\* an end that is CLAUDE.md in upper or lower case, or CLAUDE.mdx
StorageFileNames ==
    {prefix \o suffix :
        prefix \in {<<>>} \cup UNION {[1..k -> {"a", ".", Tilde}] : k \in 1..MaxPrefixLen},
        suffix \in {ClaudeMd, ToLower(ClaudeMd), ClaudeMd \o <<"x">>}}

\* the entries of a directory: a file or a subdirectory of any of the names
DirEntries == {[name |-> n, isDir |-> d] : n \in StorageFileNames, d \in BOOLEAN}

\* the listings: one entry, or one entry and a file stored by a save
Listings ==
    {<<e>> : e \in DirEntries}
        \cup {IF NameLess(e.name, n) THEN <<e, [name |-> n, isDir |-> FALSE]>>
              ELSE <<[name |-> n, isDir |-> FALSE], e>> :
                    e \in {d \in DirEntries : d.name \notin StoreNames}, n \in StoreNames}

\* FindStoredFiles returning every file of the listing
StoredFilesInAll(entries) ==
    [i \in 1..Len(entries) |->
        [StorageFilename |-> entries[i].name,
         RepoRelativePath |-> ConvertToRepoPath(entries[i].name),
         StoragePath |-> StoredPath(entries[i].name)]]

\* files.FindStoredFiles on the entries os.ReadDir returned
StoredFilesIn(entries) ==
    LET kept == SelectSeq(entries,
                    LAMBDA e : /\ ~e.isDir
                               /\ IsStoredName(e.name)
                               /\ ConvertToRepoPath(e.name) # <<>>)
    IN  [i \in 1..Len(kept) |->
            [StorageFilename |-> kept[i].name,
             RepoRelativePath |-> ConvertToRepoPath(kept[i].name),
             StoragePath |-> StoredPath(kept[i].name)]]

\* files.FindStoredFiles on the directory of the argument: nothing and no
\* error where it is missing, the error of any other failure of os.ReadDir
CallFindStoredFiles ==
    /\ conv.op = "listing"
    /\ \E readOK \in BOOLEAN :
        conv' = IF ~conv.arg.exists
                    THEN Called("FindStoredFiles", conv.arg, <<>>, FALSE, <<>>)
                ELSE IF ~readOK
                    THEN Called("FindStoredFiles", conv.arg, <<>>, TRUE, <<>>)
                ELSE Called("FindStoredFiles", conv.arg, <<>>, FALSE,
                            StoredFilesIn(conv.arg.entries))
    /\ UNCHANGED <<fsvars, proc, hist, fs0, pre>>

\* RestoreFiles on the stored files found: for each the target path in the
\* repository, where the link is to be, and the check that it does not
\* leave the repository
CallRestoreFiles ==
    /\ conv.op = "FindStoredFiles"
    /\ ~conv.out.err
    /\ LET found == conv.out.val IN
        conv' = Called("RestoreFiles", conv.arg, found, FALSE,
                       [i \in 1..Len(found) |->
                            [targetPath |-> Join(<<RepoRoot, found[i].RepoRelativePath>>),
                             escapes |-> Escapes(found[i].RepoRelativePath)]])
    /\ UNCHANGED <<fsvars, proc, hist, fs0, pre>>

\* A storage directory, missing or holding one of the listings, which the
\* argument of the call carries, and an empty repository.
StorageInit ==
    /\ repo = [r \in RepoPaths |-> None]
    /\ repoDirs = {}
    /\ store = [n \in StoreNames |-> None]
    /\ proc = [p \in Procs |-> IdleProc]
    /\ hist = Unobserved
    /\ fs0 = [repo |-> repo, store |-> store, dirs |-> repoDirs]
    /\ pre = NoPre
    /\ \E entries \in Listings, exists \in BOOLEAN :
        /\ storageDir = IF exists THEN [exists |-> TRUE, mode |-> DirMode]
                        ELSE [exists |-> FALSE, mode |-> 0]
        /\ conv = Called("listing", [entries |-> entries, exists |-> exists], <<>>,
                         FALSE, <<>>)

StorageNext ==
    \/ CallFindStoredFiles
    \/ CallRestoreFiles

StorageSpec == StorageInit /\ [][StorageNext]_vars

-----------------------------------------------------------------------------
(* The command preamble, step by step                                      *)

GitAt == <<"g", "i", "t", "@">>

Http == <<"h", "t", "t", "p", ":", "/", "/">>

Https == <<"h", "t", "t", "p", "s", ":", "/", "/">>

Colon == ":"

At == "@"

\* strings.TrimPrefix
TrimPrefix(s, prefix) ==
    IF HasPrefix(s, prefix) THEN SubSeq(s, Len(prefix) + 1, Len(s)) ELSE s

\* strings.Index of a character: the first position, 0 where Go returns -1
Index(s, c) ==
    LET idx == {i \in 1..Len(s) : s[i] = c} IN
    IF idx = {} THEN 0 ELSE CHOOSE i \in idx : \A j \in idx : i <= j

\* git.ExtractRepoName with the check of the last segment made for https
\* URLs as it is made for SSH URLs
ExtractRepoNameChecked(remoteURL) ==
    LET fail(msg) == [err |-> msg, val |-> <<>>]
        parts == Split(remoteURL, Colon)
        sshSegments == Split(parts[Len(parts)], Sep)
        stripped == TrimPrefix(TrimPrefix(remoteURL, Https), Http)
        segments == Split(stripped, Sep)
    IN  IF remoteURL = <<>> THEN fail("remote URL is empty")
        ELSE IF HasPrefix(remoteURL, GitAt) /\ ~Contains(remoteURL, <<Colon>>)
            THEN fail("invalid SSH URL format")
        ELSE IF Contains(remoteURL, <<Colon>>) /\ HasPrefix(remoteURL, GitAt)
            THEN IF Len(parts) < 2 \/ parts[2] = <<>> THEN fail("invalid SSH URL format")
                 ELSE IF Len(sshSegments) = 0 \/ sshSegments[Len(sshSegments)] = <<>>
                     THEN fail("invalid SSH URL format")
                 ELSE [err |-> "", val |-> sshSegments[Len(sshSegments)]]
        ELSE IF HasPrefix(remoteURL, Http) \/ HasPrefix(remoteURL, Https)
            THEN IF Len(segments) < 2 \/ segments[Len(segments)] \in {<<>>, Dot, DotDot}
                     THEN fail("invalid HTTPS URL format")
                 ELSE [err |-> "", val |-> segments[Len(segments)]]
        ELSE fail("unsupported URL format")

\* git.ExtractRepoName: the error message, or the name
ExtractRepoName(remoteURL) ==
    LET fail(msg) == [err |-> msg, val |-> <<>>]
        parts == Split(remoteURL, Colon)
        sshSegments == Split(parts[Len(parts)], Sep)
        stripped == TrimPrefix(TrimPrefix(remoteURL, Https), Http)
        segments == Split(stripped, Sep)
    IN  IF remoteURL = <<>> THEN fail("remote URL is empty")
        ELSE IF HasPrefix(remoteURL, GitAt) /\ ~Contains(remoteURL, <<Colon>>)
            THEN fail("invalid SSH URL format")
        ELSE IF Contains(remoteURL, <<Colon>>) /\ HasPrefix(remoteURL, GitAt)
            THEN IF Len(parts) < 2 \/ parts[2] = <<>> THEN fail("invalid SSH URL format")
                 ELSE IF Len(sshSegments) = 0 \/ sshSegments[Len(sshSegments)] = <<>>
                     THEN fail("invalid SSH URL format")
                 ELSE [err |-> "", val |-> sshSegments[Len(sshSegments)]]
        ELSE IF HasPrefix(remoteURL, Http) \/ HasPrefix(remoteURL, Https)
            THEN IF Len(segments) < 2 THEN fail("invalid HTTPS URL format")
                 ELSE [err |-> "", val |-> segments[Len(segments)]]
        ELSE fail("unsupported URL format")

\* git.ExtractUserFromEmail: the error message, or the part before the first @
ExtractUserFromEmail(email) ==
    LET idx == Index(email, At) IN
    IF email = <<>> THEN [err |-> "email is empty", val |-> <<>>]
    ELSE IF idx = 0 THEN [err |-> "email does not contain @", val |-> <<>>]
    ELSE IF idx = 1 THEN [err |-> "username part of email is empty", val |-> <<>>]
    ELSE [err |-> "", val |-> SubSeq(email, 1, idx - 1)]

\* what os.Stat finds at .git in a directory: nothing, a directory, a
\* regular file, or an entry of another kind
GitKinds == {"none", "dir", "file", "other"}

\* the depth of the deepest working directory
MaxDepth == 3

\* the longest configured email and the longest remainder of a URL
MaxEmailLen == 2

MaxUrlLen == 3

\* the working directory at a depth below the filesystem root
RECURSIVE CwdAt(_)
CwdAt(depth) == IF depth = 0 THEN <<Sep>> ELSE Join(<<CwdAt(depth - 1), <<"a">>>>)

\* the depth of an absolute path
Depth(path) == Len(SelectSeq(Split(path, Sep), LAMBDA e : Len(e) > 0))

\* the configuration of the repository of the model
GoodEmail == User \o <<At, "x">>

GoodUrl == GitAt \o <<"h", Colon>> \o User \o <<Sep>> \o RepoName

\* the values of user.email
Emails == {<<>>} \cup UNION {[1..k -> {"a", At, ".", Sep}] : k \in 1..MaxEmailLen}

\* the values of remote.origin.url: a scheme or none, and a remainder
UrlPrefixes == {<<>>, GitAt, Http, Https}

Urls ==
    {prefix \o rest : prefix \in UrlPrefixes,
                      rest \in {<<>>} \cup UNION {[1..k -> {"a", Sep, Colon, "."}] :
                                                    k \in 1..MaxUrlLen}}
        \cup {GoodUrl, Https \o Http \o <<"a">>, Https \o Http \o <<"a", Sep, "a">>}

\* the preamble ends with an error: the command prints it and returns it
PreFailed(msg) == [pre EXCEPT !.pc = "failed", !.err = msg]

\* FindRepository: os.Getwd
PreGetwd ==
    /\ pre.pc = "getwd"
    /\ \E getwdOK \in BOOLEAN :
        pre' = IF getwdOK THEN [pre EXCEPT !.dir = pre.cwd, !.pc = "find"]
               ELSE PreFailed("failed to get current directory")
    /\ UNCHANGED <<fsvars, proc, hist, fs0, conv>>

\* FindRepository taking any entry named .git for a repository
PreFindAnyEntry ==
    /\ pre.pc = "find"
    /\ LET kind == pre.git[Depth(pre.dir) + 1]
           parent == Dir(pre.dir)
       IN  pre' = IF kind # "none"
                      THEN [pre EXCEPT !.root = pre.dir, !.pc = "email"]
                  ELSE IF parent = pre.dir THEN PreFailed("not in a git repository")
                  ELSE [pre EXCEPT !.dir = parent]
    /\ UNCHANGED <<fsvars, proc, hist, fs0, conv>>

\* FindRepository: one turn of the loop, at the directory dir
PreFind ==
    /\ pre.pc = "find"
    /\ LET kind == pre.git[Depth(pre.dir) + 1]
           parent == Dir(pre.dir)
       IN  pre' = IF kind \in {"dir", "file"}
                      THEN [pre EXCEPT !.root = pre.dir, !.pc = "email"]
                  ELSE IF parent = pre.dir THEN PreFailed("not in a git repository")
                  ELSE [pre EXCEPT !.dir = parent]
    /\ UNCHANGED <<fsvars, proc, hist, fs0, conv>>

\* Repository.GetUserEmail: git config --get user.email
PreEmail ==
    /\ pre.pc = "email"
    /\ \E configured \in BOOLEAN :
        pre' = IF configured THEN [pre EXCEPT !.pc = "user"]
               ELSE PreFailed("user.email not configured in git")
    /\ UNCHANGED <<fsvars, proc, hist, fs0, conv>>

\* git.ExtractUserFromEmail on the email
PreUser ==
    /\ pre.pc = "user"
    /\ LET got == ExtractUserFromEmail(pre.email) IN
        pre' = IF got.err # "" THEN PreFailed(got.err)
               ELSE [pre EXCEPT !.user = got.val, !.pc = "origin"]
    /\ UNCHANGED <<fsvars, proc, hist, fs0, conv>>

\* Repository.GetOriginURL: git config --get remote.origin.url
PreOrigin ==
    /\ pre.pc = "origin"
    /\ \E configured \in BOOLEAN :
        pre' = IF configured THEN [pre EXCEPT !.pc = "name"]
               ELSE PreFailed("origin remote not configured")
    /\ UNCHANGED <<fsvars, proc, hist, fs0, conv>>

\* git.ExtractRepoName on the URL
PreName ==
    /\ pre.pc = "name"
    /\ LET got == ExtractRepoName(pre.url) IN
        pre' = IF got.err # "" THEN PreFailed(got.err)
               ELSE [pre EXCEPT !.repoName = got.val, !.pc = "converter"]
    /\ UNCHANGED <<fsvars, proc, hist, fs0, conv>>

\* storage.NewPathConverter, which fails when os.UserHomeDir does
PreConverter ==
    /\ pre.pc = "converter"
    /\ \E homeOK \in BOOLEAN :
        pre' = IF homeOK
                   THEN [pre EXCEPT !.converter = NewPathConverter(pre.user, pre.repoName),
                                    !.pc = "ready"]
               ELSE PreFailed("failed to get home directory")
    /\ UNCHANGED <<fsvars, proc, hist, fs0, conv>>

\* A command is started in a working directory at some depth, below
\* directories that hold any .git entries, in a repository configured as the
\* model's; or at the root of a repository with any email and origin URL.
PreInit ==
    /\ repo = [r \in RepoPaths |-> None]
    /\ repoDirs = {}
    /\ storageDir = [exists |-> FALSE, mode |-> 0]
    /\ store = [n \in StoreNames |-> None]
    /\ proc = [p \in Procs |-> IdleProc]
    /\ hist = Unobserved
    /\ fs0 = [repo |-> repo, store |-> store, dirs |-> repoDirs]
    /\ conv = NoConv
    /\ \/ \E depth \in 0..MaxDepth : \E git \in [1..(depth + 1) -> GitKinds] :
            pre = [NoPre EXCEPT !.pc = "getwd", !.cwd = CwdAt(depth), !.git = git,
                                !.email = GoodEmail, !.url = GoodUrl]
       \/ \E email \in Emails, url \in Urls :
            pre = [NoPre EXCEPT !.pc = "getwd", !.cwd = RepoRoot,
                                !.git = <<"none", "dir">>,
                                !.email = email, !.url = url]

PreNext ==
    \/ PreGetwd
    \/ PreFind
    \/ PreEmail
    \/ PreUser
    \/ PreOrigin
    \/ PreName
    \/ PreConverter

PreambleSpec == PreInit /\ [][PreNext]_vars

\* every step of the preamble that can be taken is taken in the end
FairPreambleSpec == PreambleSpec /\ WF_vars(PreNext)

-----------------------------------------------------------------------------
(* What the claims speak of                                                *)

\* the invocations of a command that are past their preamble
Running(cmd) == {p \in Procs : proc[p].cmd = cmd /\ proc[p].inRepo}

\* the results an invocation has recorded for a repository path
ResultsFor(p, rel) ==
    {proc[p].results[k] : k \in {j \in 1..Len(proc[p].results) :
                                    proc[p].results[j].RepoRelativePath = rel}}

\* the storage file name of a repository path
NameOf(rel) == StorageNameOf[rel].val

\* the regular files of a filesystem snapshot
RegularIn(rp) == {rel \in RepoPaths : rp[rel].k = "file"}

\* the symbolic links of a filesystem snapshot
LinksIn(rp) == {rel \in RepoPaths : rp[rel].k = "link"}

\* the path is a symbolic link to its own storage path, the storage file
\* holds the content, and reading through the link yields it
StoredAndLinked(rel, content) ==
    /\ repo[rel] = Link(StoragePathOf[rel].val)
    /\ IsAbs(repo[rel].t)
    /\ store[NameOf(rel)] = File(content)
    /\ ReadFile(rel, repo, store) = [err |-> FALSE, val |-> content]

\* the path lies inside the directory: below it, element by element
Inside(path, dir) ==
    LET r == Rel(dir, path) IN
    r # Dot /\ ~HasPrefix(r, DotDot)

-----------------------------------------------------------------------------
(* Claims about one invocation at a time                                   *)

\* C1: at every moment of a save, and in its final state whatever failed, the
\* content of every file that was regular when the save began is wholly held
\* by the original path or by its storage file; after a CRITICAL result, where
\* the original was removed and could not be written back, by the storage file.
C1_DataSafety ==
    \A p \in Running("save") : \A rel \in RegularIn(proc[p].repo0) :
        LET original == proc[p].repo0[rel] IN
        /\ repo[rel] = original \/ store[NameOf(rel)] = File(original.c)
        /\ \A r \in ResultsFor(p, rel) :
            r.Warning = "CRITICAL" => store[NameOf(rel)] = File(original.c)

\* a save ended with a CRITICAL result and the original path no longer holds
\* the content
C1_Witness ==
    \E p \in Running("save") : \E rel \in RegularIn(proc[p].repo0) :
        /\ proc[p].pc = "done"
        /\ \E r \in ResultsFor(p, rel) : r.Warning = "CRITICAL"
        /\ repo[rel] # proc[p].repo0[rel]

\* C2: once save has recorded Success for a file, the original path is a
\* symbolic link whose target is the absolute path GetStoragePath gives, the
\* storage file holds the content the file had, and reading through the link
\* yields that content.
C2_SaveSuccess ==
    \A p \in Running("save") : \A rel \in RepoPaths :
        (\E r \in ResultsFor(p, rel) : r.Success) =>
            /\ proc[p].repo0[rel].k = "file"
            /\ repo[rel].k = "link"
            /\ repo[rel].t = GetStoragePath(Converter, rel).val
            /\ StoredAndLinked(rel, proc[p].repo0[rel].c)

\* a save that returned with a Success for the nested file
C2_Witness ==
    \E p \in Running("save") :
        /\ proc[p].pc = "done"
        /\ \E r \in ResultsFor(p, Join(<<SubDir, ClaudeMd>>)) : r.Success

\* C3: a regular file whose storage file already exists when save gets to
\* create it is recorded as skipped with the reason "storage file exists" and
\* no error, and neither the original nor the storage file is changed; only
\* a failed read of the original comes before that.
C3_StorageConflict ==
    \A p \in Running("save") : \A rel \in RepoPaths : \A r \in ResultsFor(p, rel) :
        /\ r.SkipReason = "storage file exists" =>
            /\ r.Skipped /\ ~r.Success /\ ~r.Error
            /\ proc[p].repo0[rel].k = "file"
            /\ proc[p].store0[NameOf(rel)] # None
            /\ repo[rel] = proc[p].repo0[rel]
            /\ store[NameOf(rel)] = proc[p].store0[NameOf(rel)]
        /\ ( /\ proc[p].repo0[rel].k = "file"
             /\ proc[p].store0[NameOf(rel)] # None
             /\ r.SkipReason # "read failed" )
           => r.SkipReason = "storage file exists"

\* a save returned after it skipped a file whose storage file holds another
\* content than the file
C3_Witness ==
    \E p \in Running("save") : \E rel \in RepoPaths :
        /\ proc[p].pc = "done"
        /\ \E r \in ResultsFor(p, rel) : r.SkipReason = "storage file exists"
        /\ repo[rel].k = "file"
        /\ store[NameOf(rel)].k = "file"
        /\ store[NameOf(rel)].c # repo[rel].c

\* C7: every storage file that existed when an invocation began is there
\* unchanged at every moment of it and after it; clear, restore and init
\* change nothing in the storage directory; the only storage files a save
\* may have removed or changed are those it created itself.
C7_StoredContentKept ==
    \A p \in Procs : proc[p].inRepo =>
        /\ \A n \in StoreNames :
            proc[p].store0[n] # None => store[n] = proc[p].store0[n]
        /\ proc[p].cmd \in {"clear", "restore", "init"} => store = proc[p].store0
        /\ \A n \in StoreNames :
            store[n] # proc[p].store0[n] => proc[p].cmd = "save" /\ n \in proc[p].made

\* a save returned after it removed a storage file it had created, beside a
\* storage file that was there before
C7_Witness ==
    \E p \in Running("save") : \E n \in proc[p].made : \E m \in StoreNames :
        /\ proc[p].pc = "done"
        /\ store[n] = None
        /\ proc[p].store0[m] # None

\* C8: clear leaves in place, with the skip reason "symlink points outside
\* storage", every symbolic link whose target is not inside the repo storage
\* directory.
C8_ClearSkipsOutside ==
    \A p \in Running("clear") : \A rel \in LinksIn(proc[p].repo0) :
        ~Inside(proc[p].repo0[rel].t, GetRepoStorageDir(Converter)) =>
            /\ repo[rel] = proc[p].repo0[rel]
            /\ \A r \in ResultsFor(p, rel) :
                r.Skipped /\ r.SkipReason = "symlink points outside storage"

\* C9: clear records no result for a regular file and leaves every regular
\* file as it was; in a repository without CLAUDE.md symbolic links the
\* command prints "No CLAUDE.md symlinks found in repository" and returns 0.
C9_ClearIgnoresRegular ==
    \A p \in Running("clear") :
        /\ \A rel \in RegularIn(proc[p].repo0) :
            /\ ResultsFor(p, rel) = {}
            /\ repo[rel] = proc[p].repo0[rel]
        /\ (proc[p].pc = "done" /\ LinksIn(proc[p].repo0) = {}) =>
            /\ proc[p].out = <<[kind |-> "No CLAUDE.md symlinks found in repository"]>>
            /\ proc[p].exit = 0

\* a clear returned in a repository that holds regular files and no link
C9_Witness ==
    \E p \in Running("clear") :
        /\ proc[p].pc = "done"
        /\ RegularIn(proc[p].repo0) = RepoPaths \ {TildePath}
        /\ proc[p].out = <<[kind |-> "No CLAUDE.md symlinks found in repository"]>>

-----------------------------------------------------------------------------
(* Claims about two saves at once                                          *)

\* the invocation found the path as a regular file
FoundRegular(p, rel) ==
    \E k \in 1..Len(proc[p].files) :
        proc[p].files[k] = [RepoRelativePath |-> rel, IsSymlink |-> FALSE]

\* C4: of two saves that race for the same regular file at most one records
\* Success; the other records a skip and no Success, and where no system call
\* failed for a reason outside the two saves its reason is "storage file
\* exists" or "read failed"; a skip with the reason "storage file exists"
\* carries no error; and the storage file only ever holds the content of the
\* original or the part of it written so far, the whole of it once a Success
\* is recorded.
C4_ConcurrentSaves ==
    \A rel \in RegularIn(fs0.repo) :
        LET content == fs0.repo[rel].c
            won(p) == \E r \in ResultsFor(p, rel) : r.Success
        IN  /\ ~(won(1) /\ won(2))
            /\ \A p \in Procs : \A q \in Procs \ {p} :
                (won(p) /\ FoundRegular(q, rel) /\ proc[q].pc = "done"
                    /\ proc[q].exit = 0) =>
                    \E r \in ResultsFor(q, rel) :
                        /\ r.Skipped /\ ~r.Success
                        /\ (~proc[p].faulted /\ ~proc[q].faulted) =>
                            r.SkipReason \in {"storage file exists", "read failed"}
            /\ \A p \in Procs : \A r \in ResultsFor(p, rel) :
                r.SkipReason = "storage file exists" => r.Skipped /\ ~r.Error
            /\ store[NameOf(rel)] # None =>
                store[NameOf(rel)].c \in {content} \cup Partial(content)
            /\ (\E p \in Procs : won(p)) => StoredAndLinked(rel, content)

\* both saves found the file as a regular file and returned, one with
\* Success and the other with the skip "storage file exists"
C4_Witness ==
    \E rel \in RegularIn(fs0.repo) : \E p \in Procs : \E q \in Procs \ {p} :
        /\ proc[p].pc = "done" /\ proc[q].pc = "done"
        /\ FoundRegular(p, rel) /\ FoundRegular(q, rel)
        /\ \E r \in ResultsFor(p, rel) : r.Success
        /\ \E r \in ResultsFor(q, rel) : r.SkipReason = "storage file exists"

\* C4 as first stated: whenever both saves found the file as a regular file
\* and one records Success, the other records the skip "storage file exists";
\* no system call of either failed for a reason outside the two saves.
C4_LoserSeesStorageFile ==
    \A rel \in RegularIn(fs0.repo) : \A p \in Procs : \A q \in Procs \ {p} :
        ( /\ proc[p].pc = "done" /\ proc[q].pc = "done"
          /\ ~proc[p].faulted /\ ~proc[q].faulted
          /\ FoundRegular(p, rel) /\ FoundRegular(q, rel)
          /\ \E r \in ResultsFor(p, rel) : r.Success )
        => \E r \in ResultsFor(q, rel) : r.SkipReason = "storage file exists"

-----------------------------------------------------------------------------
(* Claims about commands one after another                                 *)

\* the entry of hist of a command that returned 0 with n results, each a success
CleanRun(cmd, n) == [cmd |-> cmd, clean |-> TRUE, n |-> n]

\* C5: from regular files and an empty storage directory, after a save in
\* which every file succeeded every such path is a symbolic link to its
\* storage file, which holds the content; after a clear that removed every
\* link none of the paths exists and the storage files are as they were;
\* after a restore that created every link every path is again a symbolic
\* link through which the original content is read.
C5_Cycle ==
    LET all == Cardinality(RegularIn(fs0.repo)) IN
    proc[1].pc = "done" =>
        \A rel \in RegularIn(fs0.repo) :
            LET content == fs0.repo[rel].c IN
            /\ hist = <<CleanRun("save", all)>> => StoredAndLinked(rel, content)
            /\ hist = <<CleanRun("save", all), CleanRun("clear", all)>> =>
                /\ repo[rel] = None
                /\ store[NameOf(rel)] = File(content)
                /\ storageDir.exists
            /\ hist = <<CleanRun("save", all), CleanRun("clear", all),
                        CleanRun("restore", all)>> =>
                StoredAndLinked(rel, content)

\* the cycle has been run over a repository with both files
C5_Witness ==
    /\ proc[1].pc = "done"
    /\ hist = <<CleanRun("save", 2), CleanRun("clear", 2), CleanRun("restore", 2)>>
    /\ RegularIn(fs0.repo) = RepoPaths \ {TildePath}
    /\ \A rel \in RepoPaths \ {TildePath} : StoredAndLinked(rel, fs0.repo[rel].c)

\* C6: a save that follows a save in which every file succeeded, run in the
\* repository with no fault of the environment, returns 0, changes nothing
\* in the repository or the storage
\* directory, records every file as skipped with the reason "already symlink"
\* and no warning, and prints no per-file line and the counts 0 saved, all
\* skipped, 0 errors.
C6_IdempotentSave ==
    LET n == Len(hist)
        P == proc[1]
    IN  ( /\ Observed /\ n >= 2 /\ P.pc = "done"
          /\ hist[n - 1].cmd = "save" /\ hist[n - 1].clean
          /\ hist[n].cmd = "save" /\ P.inRepo /\ ~P.faulted )
        =>  /\ P.exit = 0
            /\ repo = P.repo0
            /\ store = P.store0
            /\ \A k \in 1..Len(P.results) :
                P.results[k] = Result(P.results[k].RepoRelativePath, FALSE, TRUE,
                                      "already symlink", "", FALSE)
            /\ Len(P.results) = Cardinality(LinksIn(repo))
            /\ \A k \in 1..Len(P.out) : P.out[k].kind \notin {"Saved", "Warning", "Error"}
            /\ Len(P.results) > 0 =>
                P.out = <<[kind |-> "Summary",
                           counts |-> [saved |-> 0, skipped |-> Len(P.results),
                                       errors |-> 0]]>>

\* a second save returned after a first one that saved both files
C6_Witness ==
    /\ proc[1].pc = "done"
    /\ hist = <<CleanRun("save", 2), Finished(proc[1])>>
    /\ RegularIn(fs0.repo) = RepoPaths \ {TildePath}
    /\ Len(proc[1].results) = 2

-----------------------------------------------------------------------------
(* Restore with a missing parent directory                                 *)

\* the stored files a restore has gone past whose parent directory in the
\* repository does not exist
PastMissingParent(p) ==
    {k \in 1..Len(proc[p].files) :
        /\ k < proc[p].i \/ proc[p].pc \in {"summary", "done"}
        /\ ~ParentExists(proc[p].files[k].RepoRelativePath, repoDirs)}

\* C11: a stored file whose parent directory is missing in the repository
\* gets from RestoreFiles the result Skipped with the reason "parent dir
\* missing" and a warning, and no error; no directory and no symbolic link
\* is created for it; and the loop goes on, so that a restore that has
\* returned from the loop holds one result for every stored file.
C11_RestoreMissingParent ==
    \A p \in Running("restore") :
        LET P == proc[p] IN
        /\ repoDirs = fs0.dirs
        /\ \A k \in PastMissingParent(p) :
            LET rel == P.files[k].RepoRelativePath IN
            /\ Len(P.results) >= k
            /\ P.results[k] = Result(rel, FALSE, TRUE, "parent dir missing", "Skipping", FALSE)
            /\ Lstat(rel, repo) = None
        /\ (P.pc \in {"summary", "done"} /\ Len(P.files) > 0) =>
            Len(P.results) = Len(P.files)

\* a restore that skipped the nested file for its missing directory and
\* then created the link of the file at the root
C11_Witness ==
    \E p \in Running("restore") :
        /\ proc[p].pc = "done"
        /\ Len(proc[p].files) = 2
        /\ PastMissingParent(p) = {1}
        /\ proc[p].results[1].SkipReason = "parent dir missing"
        /\ proc[p].results[2].Success
        /\ repo[ClaudeMd] = Link(StoredPath(ClaudeMd))

-----------------------------------------------------------------------------
(* Restore after save                                                      *)

\* the storage files of a filesystem snapshot
StoredIn(st) == {n \in StoreNames : st[n].k = "file"}

\* C12: a restore that follows a save in which files were found and every
\* one succeeded, with nothing else in the storage directory, run in the
\* repository with no fault of the environment, returns 0, records every
\* saved file as skipped with the reason "already correct" and no warning,
\* prints no per-file line and the counts 0 restored, all skipped, 0
\* warnings, and leaves the repository and the storage directory as they
\* were: the link target save wrote is the absolute storage path restore
\* computes.
C12_RestoreAfterSave ==
    LET n == Len(hist)
        P == proc[1]
    IN  ( /\ Observed /\ n >= 2 /\ P.pc = "done"
          /\ hist[n - 1].cmd = "save" /\ hist[n - 1].clean /\ hist[n - 1].n > 0
          /\ hist[n].cmd = "restore" /\ P.inRepo /\ ~P.faulted
          /\ Cardinality(StoredIn(P.store0)) = hist[n - 1].n )
        =>  /\ P.exit = 0
            /\ repo = P.repo0
            /\ store = P.store0
            /\ Len(P.results) = hist[n - 1].n
            /\ \A k \in 1..Len(P.results) :
                LET rel == P.results[k].RepoRelativePath IN
                /\ P.results[k] = Result(rel, FALSE, TRUE, "already correct", "", FALSE)
                /\ repo[rel] = Link(StoredPath(StoredFileOf[NameOf(rel)].StorageFilename))
            /\ P.out = <<[kind |-> "Summary",
                          counts |-> [restored |-> 0, skipped |-> hist[n - 1].n,
                                      warnings |-> 0]]>>

\* a restore returned right after a save that saved both files
C12_Witness ==
    /\ proc[1].pc = "done"
    /\ hist = <<CleanRun("save", 2), Finished(proc[1])>>
    /\ proc[1].cmd = "restore"
    /\ Len(proc[1].results) = 2
    /\ \A k \in 1..2 : proc[1].results[k].SkipReason = "already correct"

-----------------------------------------------------------------------------
(* The path conversion                                                     *)

\* a repository-relative path as filepath.Rel yields it: relative and cleaned
IsCleanRel(path) == ~IsAbs(path) /\ Clean(path) = path

\* the components of a path
Components(path) == SelectSeq(Split(path, Sep), LAMBDA e : Len(e) > 0)

\* whether ".." is a component of the path
HasDotDotComponent(path) ==
    \E i \in 1..Len(Components(path)) : Components(path)[i] = DotDot

\* C13: for every cleaned repository-relative path that holds no tilde and
\* nowhere the two characters "..", ConvertToRepoPath of its
\* ConvertToStorageName is the path itself.
C13_RoundTrip ==
    ( /\ conv.op = "RoundTrip"
      /\ IsCleanRel(conv.arg)
      /\ ~Contains(conv.arg, <<Tilde>>)
      /\ ~Contains(conv.arg, DotDot) )
    => conv.out.val = conv.arg

\* the nested path of the repository went to its storage name and back
C13_Witness ==
    /\ conv.op = "RoundTrip"
    /\ conv.arg = Join(<<SubDir, ClaudeMd>>)
    /\ conv.name = SubDir \o <<Tilde>> \o ClaudeMd
    /\ conv.out.val = conv.arg

\* C13 as stated: the round trip returns every cleaned repository-relative
\* path that holds no tilde and has no component "..".
C13_RoundTripNoDotDotComponent ==
    ( /\ conv.op = "RoundTrip"
      /\ IsCleanRel(conv.arg)
      /\ ~Contains(conv.arg, <<Tilde>>)
      /\ ~HasDotDotComponent(conv.arg) )
    => conv.out.val = conv.arg

\* the tilde-separated parts of a storage file name that name something:
\* the empty part and "." name nothing
NamingParts(filename) ==
    SelectSeq(Split(filename, Tilde), LAMBDA e : e # <<>> /\ e # Dot)

\* C14: ConvertToRepoPath returns the empty string for every storage file
\* name that holds the two characters ".." anywhere, with or without
\* tildes; for every other file name it returns the tilde-separated parts
\* joined by the path separator; so a result that is not empty never has a
\* component "..".
C14_ConvertToRepoPath ==
    conv.op = "ConvertToRepoPath" =>
        LET filename == conv.arg
            path == conv.out.val
        IN  /\ Contains(filename, DotDot) => path = <<>>
            /\ (~Contains(filename, DotDot) /\ ~Contains(filename, <<Sep>>)) =>
                IF Len(NamingParts(filename)) = 0 THEN path \in {<<>>, Dot}
                ELSE path = JoinSep(NamingParts(filename), Sep)
            /\ path # <<>> => ~HasDotDotComponent(path)

\* the function was given a traversal through tildes, which it rejected
C14_Witness ==
    /\ conv.op = "ConvertToRepoPath"
    /\ conv.arg = <<".", ".", "~", "a">>
    /\ conv.out.val = <<>>

-----------------------------------------------------------------------------
(* Paths that hold a tilde                                                 *)

\* the files a save has gone past whose path holds a tilde
PastTilde(p) ==
    {k \in 1..Len(proc[p].files) :
        /\ k < proc[p].i \/ proc[p].pc \in {"summary", "done"}
        /\ Contains(proc[p].files[k].RepoRelativePath, <<Tilde>>)}

\* C15: ValidatePath, ConvertToStorageName and GetStoragePath fail for
\* every path that holds a tilde.  SaveFiles records a file with such a
\* path as Skipped with the reason "invalid path", a warning and an error;
\* it creates nothing in the storage directory for it, not the directory
\* either, and leaves the file as it was; and it goes on to the next file,
\* so that a save that has left the loop holds one result for every file.
C15_TildeRejected ==
    /\ conv.op \in {"ValidatePath", "ConvertToStorageName", "GetStoragePath"} =>
        (Contains(conv.arg, <<Tilde>>) => conv.out.err)
    /\ \A p \in Running("save") :
        LET P == proc[p] IN
        /\ \A k \in PastTilde(p) :
            LET rel == P.files[k].RepoRelativePath IN
            /\ Len(P.results) >= k
            /\ P.results[k] = Result(rel, FALSE, TRUE, "invalid path", "Skipping", TRUE)
            /\ repo[rel] = P.repo0[rel]
        /\ \A n \in P.made :
            \E rel \in RepoPaths : ~Contains(rel, <<Tilde>>) /\ NameOf(rel) = n
        /\ (\A k \in 1..Len(P.files) : k \in PastTilde(p)) =>
            (repo = P.repo0 /\ store = P.store0 /\ storageDir = P.dir0)
        /\ (P.pc \in {"summary", "done"} /\ Len(P.files) > 0) =>
            Len(P.results) = Len(P.files)

\* a save that skipped the file below the tilde directory, left it in
\* place, and then saved the file at the root
C15_Witness ==
    \E p \in Running("save") :
        /\ proc[p].pc = "done"
        /\ Len(proc[p].files) = 2
        /\ PastTilde(p) = {1}
        /\ proc[p].results[1].SkipReason = "invalid path"
        /\ repo[TildePath] = File(ContentAt(TildePath))
        /\ proc[p].results[2].Success
        /\ StoredAndLinked(ClaudeMd, proc[p].repo0[ClaudeMd].c)

-----------------------------------------------------------------------------
(* The exit status                                                         *)

\* the one line of a command that returned an error
ErrorOnly == <<[kind |-> "Error"]>>

\* C16: a command whose preamble and discovery succeeded returns 0 whatever
\* its results are, also when every file failed or was skipped.  It returns
\* 1 only when it could not attempt its work: the preamble failed, or the
\* discovery did (the walk of save, the listing of restore, the creation of
\* the directory by init); then it printed one error line, holds no result
\* and changed nothing.
C16_ExitStatus ==
    \A p \in Procs :
        LET P == proc[p] IN
        P.pc = "done" =>
            /\ P.exit \in {0, 1}
            /\ (P.inRepo /\ ~P.faulted) => P.exit = 0
            /\ Len(P.files) > 0 => P.exit = 0
            /\ P.exit = 1 <=> P.out = ErrorOnly
            /\ P.exit = 1 =>
                /\ ~P.inRepo \/ P.faulted
                /\ P.files = <<>> /\ P.results = <<>>
                /\ repo = P.repo0 /\ store = P.store0 /\ storageDir = P.dir0

\* a save that returned 0 although every one of its files failed with an error
C16_Witness ==
    \E p \in Running("save") :
        /\ proc[p].pc = "done"
        /\ proc[p].exit = 0
        /\ Len(proc[p].results) = 2
        /\ \A k \in 1..2 : ~proc[p].results[k].Success /\ proc[p].results[k].Error

\* C16 as stated: a command whose preamble succeeded returns 0.
C16_PreambleThenZero ==
    \A p \in Procs : (proc[p].pc = "done" /\ proc[p].inRepo) => proc[p].exit = 0

-----------------------------------------------------------------------------
(* Outside a repository                                                    *)

\* C17: init, save, restore and clear, run where no repository is found,
\* each return 1, print one line, an error, and change nothing in the
\* filesystem: not the repository, not the storage directory, not a file
\* in it.
C17_NoRepository ==
    \A p \in Procs :
        LET P == proc[p] IN
        (P.cmd \in Commands /\ ~P.inRepo) =>
            /\ P.pc = "done"
            /\ P.exit = 1
            /\ P.out = ErrorOnly
            /\ P.results = <<>>
            /\ repo = P.repo0 /\ store = P.store0 /\ storageDir = P.dir0
            /\ repoDirs = fs0.dirs

\* a clear run outside a repository, where a link into the storage
\* directory was there for it to remove
C17_Witness ==
    /\ proc[1].cmd = "clear" /\ proc[1].pc = "done" /\ ~proc[1].inRepo
    /\ proc[1].exit = 1
    /\ repo[ClaudeMd] = Link(StoredPath(ClaudeMd))

-----------------------------------------------------------------------------
(* The result records                                                      *)

\* a link that ClearSymlinks takes for one into the repo storage directory
ClearWouldRemove(node) ==
    /\ node.k = "link"
    /\ PointsToStorage(Abs(node.t, TRUE).val, GetRepoStorageDir(Converter))

\* C18: in every result of SaveFiles, RestoreFiles and ClearSymlinks at
\* most one of Success and Skipped is set, and a Success has no Error, no
\* SkipReason and no Warning; the result of ClearSymlinks for a link whose
\* removal failed has Error set and neither Success nor Skipped.
C18_ResultRecords ==
    \A p \in Procs : \A k \in 1..Len(proc[p].results) :
        LET P == proc[p]
            r == P.results[k]
            rel == r.RepoRelativePath
        IN  /\ ~(r.Success /\ r.Skipped)
            /\ r.Success => (~r.Error /\ r.SkipReason = "" /\ r.Warning = "")
            /\ (P.cmd = "clear" /\ ClearWouldRemove(P.repo0[rel]) /\ repo[rel] = P.repo0[rel])
                => (r.Error /\ ~r.Success /\ ~r.Skipped)
            /\ (P.cmd = "clear" /\ ~r.Success /\ ~r.Skipped) => r.Error

\* a clear that returned with a link into the storage directory still in
\* place, its removal having failed
C18_Witness ==
    \E p \in Running("clear") : \E k \in 1..Len(proc[p].results) :
        LET r == proc[p].results[k] IN
        /\ proc[p].pc = "done"
        /\ r.Error /\ ~r.Success /\ ~r.Skipped
        /\ repo[r.RepoRelativePath] = Link(StoragePathOf[r.RepoRelativePath].val)

-----------------------------------------------------------------------------
(* The batches                                                             *)

\* the files an operation gives a result for: all of them in SaveFiles and
\* RestoreFiles, those found as symbolic links in ClearSymlinks
Inputs(P) ==
    IF P.cmd = "clear" THEN SelectSeq(P.files, LAMBDA f : f.IsSymlink) ELSE P.files

\* the result a file gets when it is the only one processed and no system
\* call fails, from the filesystem as it was when the command began
Alone(P, file) ==
    LET rel == file.RepoRelativePath IN
    CASE P.cmd = "save" ->
            IF ~ValidatePath(rel) THEN SkipErr(rel, "invalid path")
            ELSE IF file.IsSymlink
                THEN Result(rel, FALSE, TRUE, "already symlink", "", FALSE)
            ELSE IF P.store0[NameOf(rel)] # None
                THEN Result(rel, FALSE, TRUE, "storage file exists", "Skipping", FALSE)
            ELSE Succeeded(rel)
      [] P.cmd = "restore" ->
            LET decision == RestoreDecision(file, P.repo0, fs0.dirs, TRUE) IN
            IF Len(decision) = 0 THEN Succeeded(rel) ELSE decision[1]
      [] OTHER ->
            LET decision == ClearDecision(file, P.repo0[rel], TRUE) IN
            IF decision.act = "skip" THEN decision.result ELSE Succeeded(rel)

\* C19: SaveFiles and RestoreFiles return one result for every input file,
\* in the order of the input, and ClearSymlinks one for every symbolic link
\* found, in the order found; a file that failed or was skipped does not
\* end the loop; and every file that was not itself hit by a failing system
\* call has the result it would have had alone.
C19_Batches ==
    \A p \in Procs :
        LET P == proc[p] IN
        (P.inRepo /\ P.cmd \in {"save", "restore", "clear"}) =>
            /\ Len(P.results) <= Len(Inputs(P))
            /\ \A k \in 1..Len(P.results) :
                /\ P.results[k].RepoRelativePath = Inputs(P)[k].RepoRelativePath
                /\ \/ P.results[k] = Alone(P, Inputs(P)[k])
                   \/ P.faulted /\ P.results[k].Error /\ ~P.results[k].Success
            /\ P.pc \in {"summary", "done"} => Len(P.results) = Len(Inputs(P))

\* a save whose first file failed with an error and whose second file was
\* then saved
C19_Witness ==
    \E p \in Running("save") :
        /\ proc[p].pc = "done"
        /\ Len(proc[p].files) = 2
        /\ Len(proc[p].results) = 2
        /\ proc[p].results[1].Error /\ ~proc[p].results[1].Success
        /\ proc[p].results[2] = Succeeded(ClaudeMd)
        /\ StoredAndLinked(ClaudeMd, proc[p].repo0[ClaudeMd].c)

-----------------------------------------------------------------------------
(* The storage directory                                                   *)

\* the results of SaveFiles that are recorded before EnsureStorageDir is called
BeforeEnsure == {"invalid path", "already symlink", "path conversion error"}

\* C20: after EnsureStorageDir returned no error, in init or in save, the
\* repo storage directory exists; it has the mode 0700 when the call made
\* it, and is as it was when it existed before.  A call on a directory that
\* exists returns no error: "storage directory creation failed" is recorded
\* only where the directory was missing and no call before had made it.
C20_StorageDir ==
    \A p \in Procs :
        LET P == proc[p] IN
        /\ P.ensured =>
            /\ storageDir.exists
            /\ IF P.dir0.exists THEN storageDir = P.dir0 ELSE storageDir.mode = DirMode
        /\ \A k \in 1..Len(P.results) :
            P.results[k].SkipReason = "storage directory creation failed" =>
                /\ ~P.dir0.exists
                /\ \A j \in 1..(k - 1) :
                    P.results[j].SkipReason \in
                        BeforeEnsure \cup {"storage directory creation failed"}
        /\ (P.cmd = "init" /\ P.pc = "done" /\ P.inRepo /\ P.dir0.exists) => P.exit = 0

\* a save that found no storage directory and saved two files: the first
\* call made the directory with the mode 0700, the second found it
C20_Witness ==
    \E p \in Running("save") :
        /\ proc[p].pc = "done"
        /\ ~proc[p].dir0.exists
        /\ proc[p].ensured
        /\ Len(proc[p].results) = 2
        /\ \A k \in 1..2 : proc[p].results[k].Success
        /\ storageDir = [exists |-> TRUE, mode |-> DirMode]

\* C20 as stated: after EnsureStorageDir returned no error the repo storage
\* directory exists and has the mode 0700.
C20_AlwaysOwnerOnly ==
    \A p \in Procs :
        proc[p].ensured => (storageDir.exists /\ storageDir.mode = DirMode)

\* the preamble came to its end with a PathConverter
Accepted == pre.pc = "ready"

\* C21: for every email and origin URL the preamble accepts, the PathConverter
\* has a non-empty StorageRoot and a non-empty RepoName, and the repo storage
\* directory is a proper subdirectory of StorageRoot.
C21_ConverterFields ==
    Accepted =>
        /\ pre.converter.StorageRoot # <<>>
        /\ pre.converter.RepoName # <<>>
        /\ Inside(GetRepoStorageDir(pre.converter), pre.converter.StorageRoot)

\* the same for the accepted origin URLs whose name is neither empty nor a
\* dot name
C21_NamedRepository ==
    (Accepted /\ pre.repoName \notin {<<>>, Dot, DotDot}) =>
        /\ pre.converter.StorageRoot # <<>>
        /\ Inside(GetRepoStorageDir(pre.converter), pre.converter.StorageRoot)

\* the part of a string after the last occurrence of a character, the whole
\* string where it does not occur
AfterLast(s, c) ==
    LET idx == {i \in 1..Len(s) : s[i] = c} IN
    IF idx = {} THEN s
    ELSE SubSeq(s, (CHOOSE i \in idx : \A j \in idx : j <= i) + 1, Len(s))

\* an SSH URL whose first colon is directly followed by another colon or by
\* the end of the URL
SecondPartEmpty(url) ==
    LET idx == Index(url, Colon) IN
    idx = Len(url) \/ url[idx + 1] = Colon

\* what is left of an http(s) URL after the scheme; as the code removes it,
\* an http:// that follows https:// is removed as well
AfterScheme(url, coded) ==
    LET once == IF HasPrefix(url, Https) THEN SubSeq(url, Len(Https) + 1, Len(url))
                ELSE SubSeq(url, Len(Http) + 1, Len(url))
    IN  IF coded /\ HasPrefix(url, Https) /\ HasPrefix(once, Http)
            THEN SubSeq(once, Len(Http) + 1, Len(once))
        ELSE once

\* the rules of ExtractRepoName: the URLs that are rejected, as stated, or
\* (coded) with the two cases the code adds
RuleRejects(url, coded) ==
    IF url = <<>> THEN TRUE
    ELSE IF HasPrefix(url, GitAt)
        THEN \/ ~Contains(url, <<Colon>>)
             \/ AfterLast(AfterLast(url, Colon), Sep) = <<>>
             \/ coded /\ SecondPartEmpty(url)
    ELSE IF HasPrefix(url, Http) \/ HasPrefix(url, Https)
        THEN ~Contains(AfterScheme(url, coded), <<Sep>>)
    ELSE TRUE

\* the rules of ExtractRepoName: the name of an accepted URL
RuleName(url, coded) ==
    IF HasPrefix(url, GitAt) THEN AfterLast(AfterLast(url, Colon), Sep)
    ELSE AfterLast(AfterScheme(url, coded), Sep)

\* the errors of ExtractRepoName
NameErrors ==
    {"remote URL is empty", "invalid SSH URL format", "invalid HTTPS URL format",
     "unsupported URL format"}

\* ExtractRepoName has returned, with (coded) or without the added cases,
\* what the rules say
FollowsRules(coded) ==
    /\ pre.pc = "converter" =>
        /\ ~RuleRejects(pre.url, coded)
        /\ pre.repoName = RuleName(pre.url, coded)
        /\ HasSuffix(pre.url, pre.repoName)
    /\ (pre.pc = "failed" /\ pre.err \in NameErrors) => RuleRejects(pre.url, coded)

\* C22: ExtractRepoName fails on the empty URL, on a git@ URL without a colon,
\* on a git@ URL whose last segment of the last colon part is empty or whose
\* second colon part is empty, on an http(s) URL with fewer than two segments
\* after the scheme (an http:// after https:// counted as scheme), and on
\* every other URL; otherwise it returns the last segment, a suffix of the URL.
C22_ExtractRepoName == FollowsRules(TRUE)

\* C22 as stated: a git@ URL with a colon fails exactly when that last
\* segment is empty, an http(s) URL exactly when fewer than two segments
\* follow the one scheme.
C22_StatedRules == FollowsRules(FALSE)

\* a git@ URL was rejected though the last segment of its last colon part is
\* not empty
C22_Witness ==
    /\ pre.pc = "failed"
    /\ pre.err = "invalid SSH URL format"
    /\ Contains(pre.url, <<Colon>>)
    /\ AfterLast(AfterLast(pre.url, Colon), Sep) # <<>>

\* the users and the repository names the preamble accepts
AcceptedUsers ==
    {ExtractUserFromEmail(email).val : email \in {e \in Emails : ExtractUserFromEmail(e).err = ""}}

AcceptedNames ==
    {ExtractRepoName(url).val : url \in {u \in Urls : ExtractRepoName(u).err = ""}}

\* <home>/.claude/claude-md
ClaudeMdDir ==
    Home \o <<Sep, ".", "c", "l", "a", "u", "d", "e">>
         \o <<Sep, "c", "l", "a", "u", "d", "e", "-", "m", "d">>

\* a name that is one path component below the directory it is joined to
ProperName(name) == name \notin {<<>>, Dot, DotDot} /\ ~Contains(name, <<Sep>>)

\* the storage directory of the accepted pair is the literal path, two levels
\* below <home>/.claude/claude-md, and that of no other accepted pair, of
\* all pairs or (proper) of those made of proper names
StorageDirOwn(proper) ==
    (Accepted /\ (proper => ProperName(pre.user) /\ ProperName(pre.repoName))) =>
        LET dir == GetRepoStorageDir(pre.converter) IN
        /\ dir = ClaudeMdDir \o <<Sep>> \o pre.user \o <<Sep>> \o pre.repoName
        /\ Depth(Rel(ClaudeMdDir, dir)) = 2
        /\ ~HasPrefix(Rel(ClaudeMdDir, dir), DotDot)
        /\ \A user \in AcceptedUsers, name \in AcceptedNames :
            (/\ <<user, name>> # <<pre.user, pre.repoName>>
             /\ proper => ProperName(user) /\ ProperName(name))
                => GetRepoStorageDir(NewPathConverter(user, name)) # dir

\* C26: for every user and repository name the preamble accepts,
\* GetRepoStorageDir is exactly <home>/.claude/claude-md/<user>/<repo-name>,
\* two levels below <home>/.claude/claude-md, and no other accepted pair
\* has the same storage directory.
C26_StorageDir == StorageDirOwn(FALSE)

\* the same for the pairs of a user and a repository name that are each one
\* proper path component
C26_ProperNames == StorageDirOwn(TRUE)

\* the depths, from the working directory up to the root, of the directories
\* that directly hold a .git directory or regular file
GitDepths == {d \in 0..Depth(pre.cwd) : pre.git[d + 1] \in {"dir", "file"}}

\* the directory a number of levels above a directory
RECURSIVE Up(_, _)
Up(path, levels) == IF levels = 0 THEN path ELSE Up(Dir(path), levels - 1)

\* FindRepository has returned
FindReturned == pre.pc \notin {"none", "getwd", "find"}

\* FindRepository returned a repository, or failed to find one
FoundRepository == FindReturned /\ pre.root # <<>>

NoRepository == pre.pc = "failed" /\ pre.err = "not in a git repository"

\* the result of FindRepository is the nearest of these directories, and the
\* failure is that of a working directory that has none
NearestRepository ==
    /\ FoundRepository =>
        /\ GitDepths # {}
        /\ pre.root = Up(pre.cwd, Depth(pre.cwd)
                                    - (CHOOSE d \in GitDepths : \A e \in GitDepths : e <= d))
    /\ NoRepository => GitDepths = {}
    /\ (FindReturned /\ GitDepths = {}) =>
        pre.pc = "failed" /\ pre.err \in {"not in a git repository",
                                          "failed to get current directory"}

\* C27: FindRepository returns the nearest directory, from the working
\* directory up through its parents, that directly holds a .git directory or
\* regular file, fails with "not in a git repository" exactly when there is
\* none up to the root, and the upward walk always comes to an end.
C27_FindRepository == [](NearestRepository) /\ <>(FindReturned)

\* the repository was found above a directory that holds a .git entry which
\* is neither a directory nor a regular file
C27_Witness ==
    /\ FoundRepository
    /\ Depth(pre.root) < Depth(pre.cwd)
    /\ \E d \in (Depth(pre.root) + 1)..Depth(pre.cwd) : pre.git[d + 1] = "other"

\* the path of a plain skip of a save holds what it held when the save
\* began, and its storage file is as it was then, unless (excused) the
\* cleanup failed to remove it
RolledBack(excused) ==
    \A p \in Running("save") : \A rel \in RepoPaths : \A r \in ResultsFor(p, rel) :
        (r.Skipped /\ r.Warning # "CRITICAL") =>
            /\ repo[rel] = proc[p].repo0[rel]
            /\ \A n \in StoreNames :
                (~StorageNameOf[rel].err /\ n = NameOf(rel) /\ ~(excused /\ n \in proc[p].kept))
                    => store[n] = proc[p].store0[n]

WrittenBack(p, rel) ==
    {r \in ResultsFor(p, rel) :
        /\ r.SkipReason \in {"absolute path failed", "symlink creation failed"}
        /\ r.Warning # "CRITICAL"}

\* C24: in every interleaving of one save and one restore on the same file,
\* once save has written the content back to the original path and deleted
\* the storage file, the original path is a regular file that holds the
\* content; the content is never left only behind a dangling symbolic link.
C24_SaveRacingRestore ==
    \A p \in Running("save") : \A rel \in RegularIn(proc[p].repo0) :
        (WrittenBack(p, rel) # {} /\ store[NameOf(rel)] = None) =>
            repo[rel] = proc[p].repo0[rel]

\* C25: whatever the file names in the storage directory, names with "..",
\* with a leading tilde or with doubled tildes among them, the target path
\* of every stored file that FindStoredFiles yields lies inside the repository
\* root, and RestoreFiles finds none of them to escape the repository.
C25_RestoreInside ==
    conv.op = "RestoreFiles" =>
        \A i \in 1..Len(conv.out.val) :
            /\ ~conv.out.val[i].escapes
            /\ Inside(conv.out.val[i].targetPath, RepoRoot)
            /\ IsAbs(conv.out.val[i].targetPath)

\* RestoreFiles was given the stored file of a name with a leading and a
\* doubled tilde
C25_Witness ==
    /\ conv.op = "RestoreFiles"
    /\ \E i \in 1..Len(conv.name) :
        /\ conv.name[i].StorageFilename[1] = Tilde
        /\ Contains(conv.name[i].StorageFilename, <<Tilde, Tilde>>)

\* the file name equals CLAUDE.md or ends with ~claude.md, whatever the case
\* of its letters
MatchesClaudeMd(name) ==
    LET lower == ToLower(name)
        ending == <<Tilde>> \o ToLower(ClaudeMd)
    IN  \/ lower = ToLower(ClaudeMd)
        \/ /\ Len(lower) >= Len(ending)
           /\ SubSeq(lower, Len(lower) - Len(ending) + 1, Len(lower)) = ending

\* the entries of the listing that are files with such a name which
\* ConvertToRepoPath accepts
Qualifying(entries) ==
    {i \in 1..Len(entries) :
        /\ ~entries[i].isDir
        /\ MatchesClaudeMd(entries[i].name)
        /\ ConvertToRepoPath(entries[i].name) # <<>>}

\* C28: FindStoredFiles returns the empty list and no error for a missing
\* storage directory; it ignores subdirectories; it returns a file only if
\* its name is CLAUDE.md or ends with ~claude.md, case-insensitively, and
\* ConvertToRepoPath of the name is not empty, and it returns every such
\* file; every entry's StoragePath is the storage directory joined with the
\* file name and its RepoRelativePath is ConvertToRepoPath of the file name.
C28_FindStoredFiles ==
    conv.op = "FindStoredFiles" =>
        LET entries == conv.arg.entries
            found == conv.out.val
        IN  /\ ~conv.arg.exists => (~conv.out.err /\ found = <<>>)
            /\ conv.out.err => found = <<>>
            /\ (conv.arg.exists /\ ~conv.out.err) =>
                /\ {found[i].StorageFilename : i \in 1..Len(found)}
                        = {entries[i].name : i \in Qualifying(entries)}
                /\ Len(found) = Cardinality(Qualifying(entries))
                /\ \A i \in 1..Len(found) :
                    /\ found[i].StoragePath
                            = Join(<<GetRepoStorageDir(Converter), found[i].StorageFilename>>)
                    /\ found[i].RepoRelativePath = ConvertToRepoPath(found[i].StorageFilename)
                    /\ found[i].RepoRelativePath # <<>>

\* FindStoredFiles returned a stored file and left out the subdirectory
\* beside it, whose name ends with ~claude.md in lower case
C28_Witness ==
    /\ conv.op = "FindStoredFiles"
    /\ Len(conv.out.val) = 1
    /\ \E i \in 1..Len(conv.arg.entries) :
        /\ conv.arg.entries[i].isDir
        /\ MatchesClaudeMd(conv.arg.entries[i].name)
        /\ conv.arg.entries[i].name = ToLower(conv.arg.entries[i].name)

\* the summary line of an invocation that printed one
SummaryOf(p) == proc[p].out[Len(proc[p].out)]

\* the invocations of save that printed their summary
Summarised == {p \in Running("save") : proc[p].pc = "done" /\ proc[p].results # <<>>}

\* C29: in the summary of save, saved + skipped + errors is the number of
\* discovered files; errors counts the results with an error that are
\* neither a success nor skipped, and as SaveFiles marks every result that is
\* not a success as skipped, it is always 0; a CRITICAL result is counted as
\* skipped and printed as a "Warning" line.
C29_SaveSummary ==
    \A p \in Summarised :
        LET results == proc[p].results
            counts == SummaryOf(p).counts
        IN  /\ SummaryOf(p).kind = "Summary"
            /\ counts.saved + counts.skipped + counts.errors = Len(proc[p].files)
            /\ counts.errors = Cardinality({k \in 1..Len(results) :
                                    /\ results[k].Error
                                    /\ ~results[k].Success
                                    /\ ~results[k].Skipped})
            /\ \A k \in 1..Len(results) : ~results[k].Success => results[k].Skipped
            /\ counts.errors = 0
            /\ counts.skipped = Cardinality({k \in 1..Len(results) : ~results[k].Success})
            /\ \A k \in 1..Len(results) :
                results[k].Warning = "CRITICAL" =>
                    /\ results[k].Skipped /\ results[k].Error
                    /\ \E j \in 1..Len(proc[p].out) :
                        /\ proc[p].out[j].kind = "Warning"
                        /\ proc[p].out[j].rel = results[k].RepoRelativePath
                    /\ \A j \in 1..(Len(proc[p].out) - 1) : proc[p].out[j].kind # "Error"

\* a save printed its summary after a CRITICAL result and a Success
C29_Witness ==
    \E p \in Summarised :
        /\ \E k \in 1..Len(proc[p].results) : proc[p].results[k].Warning = "CRITICAL"
        /\ \E k \in 1..Len(proc[p].results) : proc[p].results[k].Success
        /\ SummaryOf(p).counts.skipped = 1

\* the invocations of a command whose walk of the repository failed
WalkFailed(cmd) ==
    {p \in Running(cmd) : proc[p].faulted /\ proc[p].files = <<>> /\ proc[p].pc # "walk"}

\* C30: when the walk of the repository fails, clear has no results, removes
\* nothing, prints "No CLAUDE.md symlinks found in repository" and returns 0;
\* save prints the error and returns 1, and changes nothing either.
C30_DiscoveryError ==
    /\ \A p \in WalkFailed("clear") :
        /\ proc[p].results = <<>>
        /\ repo = proc[p].repo0
        /\ store = proc[p].store0
        /\ proc[p].pc \in {"summary", "done"}
        /\ proc[p].pc = "done" =>
            /\ proc[p].exit = 0
            /\ proc[p].out = <<[kind |-> "No CLAUDE.md symlinks found in repository"]>>
    /\ \A p \in WalkFailed("save") :
        /\ proc[p].results = <<>>
        /\ repo = proc[p].repo0
        /\ store = proc[p].store0
        /\ proc[p].pc = "done"
        /\ proc[p].exit = 1
        /\ proc[p].out = <<[kind |-> "Error"]>>

\* a clear returned 0 after its walk failed in a repository that holds a
\* symbolic link it would have removed
C30_Witness ==
    \E p \in WalkFailed("clear") :
        /\ proc[p].pc = "done"
        /\ proc[p].exit = 0
        /\ \E rel \in LinksIn(repo) : Inside(repo[rel].t, GetRepoStorageDir(Converter))

=============================================================================
